---- MODULE Spec2Model ----
(***************************************************************************)
(* Apex Ledger: the transfer engine (LedgerService.PerformTransfer), the   *)
(* gRPC handler in front of it, the account repository it drives, and the  *)
(* PostgreSQL store behind the repository (committed rows, the uncommitted *)
(* row versions of each open unit, row locks).                             *)
(***************************************************************************)
EXTENDS Integers, Sequences, FiniteSets, TLC

\* ------------------------------------------------------------------ bounds
\* request goroutines running PerformTransfer concurrently
NCalls == 2
\* request goroutines of the deadlock-freedom specification (a ring needs three)
NRing == 3
\* largest amount_cents of a transfer request
MaxAmount == 2
\* largest initial_balance_cents of an account
MaxInit == 1
\* number of distinct values uuid.New() is drawn from
NTx == 2
\* request goroutines of the gateway specification
NGate == 1
\* largest bufferSize of the notification queue
MaxBuffer == 2
\* largest workerCount of the notification pool
MaxWorkers == 2
\* number of Enqueue calls followed
MaxOffered == 4

NoUnit == 0
TxIds == 1..NTx

\* account ids are Go strings, sequences of bytes: "" "a" "ab" "b"
EmptyId == << >>
LedgerIds == { <<1>>, <<1, 2>> }
RingIds == { <<1>>, <<1, 2>>, <<2>> }
Currencies == {"USD", "EUR"}
Amounts == 0..MaxAmount
InitBalances == (-1)..MaxInit

\* Go's < on strings: bytewise lexicographic order
RECURSIVE StrLess(_, _)
StrLess(s, t) ==
    IF t = << >> THEN FALSE
    ELSE IF s = << >> THEN TRUE
    ELSE IF Head(s) # Head(t) THEN Head(s) < Head(t)
    ELSE StrLess(Tail(s), Tail(t))

VARIABLES
    accounts,       \* committed rows of table accounts: id -> row
    transactions,   \* committed rows of table transactions
    rowLock,        \* row lock of each accounts row: the unit holding it, or NoUnit
    calls,          \* the Transfer / PerformTransfer invocation of each request goroutine
    opening,        \* history: the balance each existing row was inserted with
    pool,           \* the NotificationWorkerPool: its channel and its worker goroutines
    reply,          \* what the last LedgerService.GetBalance returned
    rpc,            \* the last request AuthInterceptor decided on, and its decision
    exec,           \* the database.ExecTx call in progress, with the unit it opened
    server          \* the gRPC server of main and its shutdown goroutine

vars == <<accounts, transactions, rowLock, calls, opening, pool, reply, rpc, exec, server>>

\* the request goroutines and the account ids clients use in this run
Procs == DOMAIN calls
AccountIds == DOMAIN accounts
Ids == AccountIds \cup {EmptyId}

\* a row of accounts (exists = FALSE: no row with that id; a nil *account.Account)
NoRow == [exists |-> FALSE, balance |-> 0, currency |-> ""]
Account(b, c) == [exists |-> TRUE, balance |-> b, currency |-> c]

NoWrites == [a \in {} |-> 0]

\* the frame of one Transfer / PerformTransfer invocation and the state of its sqlx.Tx
IdleCall ==
    [pc |-> "idle", fromID |-> EmptyId, toID |-> EmptyId, amount |-> 0,
     reqCurrency |-> "",    \* req.Currency of Handler.Transfer; "" when called directly
     txID |-> 0, fromAcc |-> NoRow, toAcc |-> NoRow,
     want |-> EmptyId,      \* the id of the pending GetAccountWithLock
     err |-> "", status |-> "",
     missing |-> EmptyId,   \* the id a not-found error names
     invoked |-> FALSE,     \* PerformTransfer was entered
     began |-> FALSE,       \* db.BeginTxx returned a unit
     committed |-> FALSE,   \* tx.Commit() succeeded
     writes |-> NoWrites,   \* uncommitted row versions of the unit: id -> balance
     logged |-> FALSE,      \* the unit holds an uncommitted transactions row
     commits |-> 0, rollbacks |-> 0]

InUnit == {"lock1", "lock2", "debit", "credit", "record", "commit"}

\* the unit of p is open: begun and neither committed nor rolled back
UnitOpen(p) == calls[p].pc \in InUnit

\* ------------------------------------------------------------ Handler.Transfer
\* strings.Contains(err.Error(), phrase) for the error texts of PerformTransfer
Contains(e, phrase) ==
    CASE phrase = "not found" ->
            e \in {"account not found",
                   "failed to debit account: account not found",
                   "failed to credit account: account not found"}
      [] phrase = "insufficient funds" -> e = "insufficient funds"
      [] phrase = "currency mismatch" -> e = "currency mismatch"
      [] phrase = "cannot be empty" -> e = "account IDs cannot be empty"
      [] OTHER -> FALSE

\* the gRPC code Handler.Transfer maps an error of PerformTransfer to
StatusOf(e) ==
    IF e = "" THEN "OK"
    ELSE IF Contains(e, "not found") THEN "NotFound"
    ELSE IF Contains(e, "insufficient funds") THEN "FailedPrecondition"
    ELSE IF Contains(e, "currency mismatch") \/ Contains(e, "cannot be empty")
         THEN "InvalidArgument"
    ELSE "Internal"

\* the status the invocation c answers with when it ends with error e
Answer(c, e) == IF c.reqCurrency = "" THEN "" ELSE StatusOf(e)

\* basic validation of Handler.Transfer: the refusal, "" when the request passes
HandlerValidate(f, t, amt, cur) ==
    IF f = EmptyId THEN "from_account_id is required"
    ELSE IF t = EmptyId THEN "to_account_id is required"
    ELSE IF amt <= 0 THEN "amount must be positive"
    ELSE IF cur = "" THEN "currency is required"
    ELSE ""

\* mutant of Validate: only what Handler.Transfer checks (the same-account check lost)
ValidateAsHandler(f, t, amt) ==
    IF f = EmptyId \/ t = EmptyId THEN "account IDs cannot be empty"
    ELSE IF amt <= 0 THEN "amount must be positive"
    ELSE ""

\* ------------------------------------------------------------ PerformTransfer
\* input validation of PerformTransfer: the error returned, "" when valid
Validate(f, t, amt) ==
    IF f = EmptyId \/ t = EmptyId THEN "account IDs cannot be empty"
    ELSE IF f = t THEN "cannot transfer to the same account"
    ELSE IF amt <= 0 THEN "amount must be positive"
    ELSE ""

\* the ids in use: of committed records and of running or returned invocations
InUse == {r.id : r \in transactions} \cup ({calls[q].txID : q \in Procs} \ {0})

\* uuid.New(): a value nobody holds (ids are opaque, so the least one stands for
\* all of them), or by collision a value already in use
UuidNew ==
    LET fresh == TxIds \ InUse
    IN  (IF fresh = {} THEN {} ELSE {CHOOSE i \in fresh : \A j \in fresh : i <= j})
        \cup InUse

\* the text of an error wrapping (%w) ctx.Err() of a cancelled or expired context
Canceled(text) == text \o ": context canceled"

\* mutant of LockOrder: the source row first, whatever the ids
LockOrderFromFirst(f, t) == <<f, t>>

\* the order in which PerformTransfer locks the two rows
LockOrder(f, t) == IF StrLess(f, t) THEN <<f, t>> ELSE <<t, f>>

\* mutant of Released: the end of a unit leaves its row locks in place
ReleasedNone(p) == rowLock

\* the row locks once the unit of p has ended, by commit or by rollback
Released(p) == [a \in AccountIds |-> IF rowLock[a] = p THEN NoUnit ELSE rowLock[a]]

\* the id in fmt.Errorf("account %s not found", id) when e is a not-found error
Named(c, e) ==
    CASE e = "account not found" -> c.want
      [] e = "failed to debit account: account not found" -> c.fromID
      [] e = "failed to credit account: account not found" -> c.toID
      [] OTHER -> EmptyId

\* mutant of Failed: the error return hands out the transaction id as well
FailedKeepsId(c, e) ==
    [IdleCall EXCEPT !.pc = "ret", !.fromID = c.fromID, !.toID = c.toID,
                     !.amount = c.amount, !.reqCurrency = c.reqCurrency,
                     !.txID = c.txID,
                     !.err = e, !.status = Answer(c, e), !.missing = Named(c, e),
                     !.invoked = TRUE, !.began = TRUE,
                     !.commits = IF c.pc = "commit" THEN 1 ELSE 0,
                     !.rollbacks = 1]

\* the frame after return "", e with the deferred tx.Rollback() run
Failed(c, e) ==
    [IdleCall EXCEPT !.pc = "ret", !.fromID = c.fromID, !.toID = c.toID,
                     !.amount = c.amount, !.reqCurrency = c.reqCurrency,
                     !.err = e, !.status = Answer(c, e), !.missing = Named(c, e),
                     !.invoked = TRUE, !.began = TRUE,
                     !.commits = IF c.pc = "commit" THEN 1 ELSE 0,
                     !.rollbacks = 1]

\* mutant of ReturnError: no deferred tx.Rollback(), the unit stays open
ReturnErrorKeepsLocks(p, e) ==
    /\ calls' = [calls EXCEPT ![p] = Failed(calls[p], e)]
    /\ UNCHANGED <<accounts, transactions, rowLock>>

\* mutant of ReturnError: the deferred call commits what the unit did so far
ReturnErrorCommits(p, e) ==
    /\ calls' = [calls EXCEPT ![p] = Failed(calls[p], e)]
    /\ rowLock' = Released(p)
    /\ accounts' = [a \in AccountIds |->
          IF a \in DOMAIN calls[p].writes
          THEN [accounts[a] EXCEPT !.balance = calls[p].writes[a]] ELSE accounts[a]]
    /\ UNCHANGED transactions

\* return "", e inside the unit: the deferred tx.Rollback() discards the unit's row
\* versions and releases its row locks
ReturnError(p, e) ==
    /\ calls' = [calls EXCEPT ![p] = Failed(calls[p], e)]
    /\ rowLock' = Released(p)
    /\ UNCHANGED <<accounts, transactions>>

\* PerformTransfer from its entry up to and including db.BeginTxx
Enter(p, f, t, amt, cur) ==
    LET e == Validate(f, t, amt)
        c == [IdleCall EXCEPT !.fromID = f, !.toID = t, !.amount = amt,
                              !.reqCurrency = cur, !.invoked = TRUE]
    IN  IF e # ""
        THEN calls' = [calls EXCEPT ![p] =
                          [c EXCEPT !.pc = "ret", !.err = e, !.status = Answer(c, e)]]
        ELSE \E id \in UuidNew, b \in {"", "failed to begin transaction",
                                        Canceled("failed to begin transaction")} :
                calls' = [calls EXCEPT ![p] =
                    IF b = "" THEN [c EXCEPT !.pc = "lock1", !.txID = id, !.began = TRUE,
                                             !.want = LockOrder(f, t)[1]]
                    ELSE [c EXCEPT !.pc = "ret", !.err = b, !.status = Answer(c, b)]]

\* a caller invokes LedgerService.PerformTransfer
PerformTransfer(p, f, t, amt) ==
    /\ calls[p].pc = "idle"
    /\ Enter(p, f, t, amt, "")
    /\ UNCHANGED <<accounts, transactions, rowLock, opening, pool, reply, rpc, exec, server>>

\* a client invokes Handler.Transfer
HandlerTransfer(p, f, t, amt, cur) ==
    /\ calls[p].pc = "idle"
    /\ LET e == HandlerValidate(f, t, amt, cur)
       IN  IF e # ""
           THEN calls' = [calls EXCEPT ![p] =
                    [IdleCall EXCEPT !.pc = "ret", !.fromID = f, !.toID = t, !.amount = amt,
                                     !.reqCurrency = cur, !.err = e,
                                     !.status = "InvalidArgument"]]
           ELSE Enter(p, f, t, amt, cur)
    /\ UNCHANGED <<accounts, transactions, rowLock, opening, pool, reply, rpc, exec, server>>

\* mutant of CheckTransfer: a transfer of the whole balance refused
CheckTransferStrict(c) ==
    IF c.fromAcc.currency # c.toAcc.currency THEN "currency mismatch"
    ELSE IF c.fromAcc.balance <= c.amount THEN "insufficient funds"
    ELSE ""

\* mutant of CheckTransfer: the funds check lost
CheckTransferNoFunds(c) ==
    IF c.fromAcc.currency # c.toAcc.currency THEN "currency mismatch" ELSE ""

\* the checks PerformTransfer makes once both rows are locked
CheckTransfer(c) ==
    IF c.fromAcc.currency # c.toAcc.currency THEN "currency mismatch"
    ELSE IF c.fromAcc.balance < c.amount THEN "insufficient funds"
    ELSE ""

\* mutant of LockRow: a plain SELECT, without FOR UPDATE
LockRowNone(p, id) == rowLock

\* the row lock SELECT ... FOR UPDATE leaves on row id for the unit of p
LockRow(p, id) == [rowLock EXCEPT ![id] = p]

\* SELECT ... FOR UPDATE of a row inside the unit of p; k = 1, 2: the first, second
\* lock of PerformTransfer, the second followed by the currency and funds checks
GetAccountWithLock(p, k) ==
    LET c == calls[p]
        id == c.want
        row == accounts[id]
        got == IF id = c.fromID THEN [c EXCEPT !.fromAcc = row]
               ELSE [c EXCEPT !.toAcc = row]
        e == CheckTransfer(got)
    IN  /\ c.pc = (IF k = 1 THEN "lock1" ELSE "lock2")
        /\ IF ~row.exists
           THEN ReturnError(p, "account not found")
           ELSE /\ rowLock[id] \in {NoUnit, p}
                /\ IF k = 2 /\ e # ""
                   THEN ReturnError(p, e)
                   ELSE /\ rowLock' = LockRow(p, id)
                        /\ calls' = [calls EXCEPT ![p] =
                              IF k = 1
                              THEN [got EXCEPT !.pc = "lock2",
                                               !.want = LockOrder(c.fromID, c.toID)[2]]
                              ELSE [got EXCEPT !.pc = "debit", !.want = EmptyId]]
                        /\ UNCHANGED <<accounts, transactions>>
        /\ UNCHANGED <<opening, pool, reply, rpc, exec, server>>

\* mutant of UpdateBalance: the UPDATE runs on the pool (r.db), outside the unit
UpdateBalanceOnPool(p, id, delta, next, failed) ==
    IF ~accounts[id].exists
    THEN ReturnError(p, failed)
    ELSE /\ rowLock[id] \in {NoUnit, p}
         /\ accounts' = [accounts EXCEPT ![id].balance = @ + delta]
         /\ calls' = [calls EXCEPT ![p] = [calls[p] EXCEPT !.pc = next]]
         /\ UNCHANGED <<rowLock, transactions>>

\* mutant of UpdateBalance: balance_cents - $1
UpdateBalanceMinus(p, id, delta, next, failed) ==
    LET c == calls[p]
        cur == IF id \in DOMAIN c.writes THEN c.writes[id] ELSE accounts[id].balance
    IN  IF ~accounts[id].exists
        THEN ReturnError(p, failed)
        ELSE /\ rowLock[id] \in {NoUnit, p}
             /\ rowLock' = [rowLock EXCEPT ![id] = p]
             /\ calls' = [calls EXCEPT ![p] =
                   [c EXCEPT !.pc = next, !.writes = (id :> (cur - delta)) @@ c.writes]]
             /\ UNCHANGED <<accounts, transactions>>

\* UPDATE accounts SET balance_cents = balance_cents + delta WHERE id = .. inside the
\* unit of p: a new uncommitted version of the row, under its row lock
UpdateBalance(p, id, delta, next, failed) ==
    LET c == calls[p]
        cur == IF id \in DOMAIN c.writes THEN c.writes[id] ELSE accounts[id].balance
    IN  IF ~accounts[id].exists
        THEN ReturnError(p, failed)
        ELSE /\ rowLock[id] \in {NoUnit, p}
             /\ rowLock' = [rowLock EXCEPT ![id] = p]
             /\ calls' = [calls EXCEPT ![p] =
                   [c EXCEPT !.pc = next, !.writes = (id :> (cur + delta)) @@ c.writes]]
             /\ UNCHANGED <<accounts, transactions>>

Debit(p) ==
    /\ calls[p].pc = "debit"
    /\ UpdateBalance(p, calls[p].fromID, -calls[p].amount, "credit",
                     "failed to debit account: account not found")
    /\ UNCHANGED <<opening, pool, reply, rpc, exec, server>>

\* mutant of Credit: the destination row is left as it is
CreditSkipped(p) ==
    /\ calls[p].pc = "credit"
    /\ calls' = [calls EXCEPT ![p] = [calls[p] EXCEPT !.pc = "record"]]
    /\ UNCHANGED <<accounts, transactions, rowLock, opening, pool, reply, rpc, exec, server>>

Credit(p) ==
    /\ calls[p].pc = "credit"
    /\ UpdateBalance(p, calls[p].toID, calls[p].amount, "record",
                     "failed to credit account: account not found")
    /\ UNCHANGED <<opening, pool, reply, rpc, exec, server>>

\* mutant of recordTransaction: transactions.id without its primary key
recordTransactionNoKey(p) ==
    LET c == calls[p] IN
    /\ c.pc = "record"
    /\ IF ~accounts[c.fromID].exists \/ ~accounts[c.toID].exists
       THEN ReturnError(p, "failed to record transaction")
       ELSE /\ calls' = [calls EXCEPT ![p] = [c EXCEPT !.pc = "commit", !.logged = TRUE]]
            /\ UNCHANGED <<accounts, transactions, rowLock>>
    /\ UNCHANGED <<opening, pool, reply, rpc, exec, server>>

\* mutant of recordTransaction: the insert left out
recordTransactionSkipped(p) ==
    /\ calls[p].pc = "record"
    /\ calls' = [calls EXCEPT ![p] = [calls[p] EXCEPT !.pc = "commit"]]
    /\ UNCHANGED <<accounts, transactions, rowLock, opening, pool, reply, rpc, exec, server>>

\* INSERT INTO transactions inside the unit: primary key id, foreign keys into
\* accounts; the insert waits for an open unit that inserted the same id
recordTransaction(p) ==
    LET c == calls[p] IN
    /\ c.pc = "record"
    /\ \A q \in Procs \ {p} : ~(UnitOpen(q) /\ calls[q].logged /\ calls[q].txID = c.txID)
    /\ IF \/ \E r \in transactions : r.id = c.txID
          \/ ~accounts[c.fromID].exists \/ ~accounts[c.toID].exists
       THEN ReturnError(p, "failed to record transaction")
       ELSE /\ calls' = [calls EXCEPT ![p] = [c EXCEPT !.pc = "commit", !.logged = TRUE]]
            /\ UNCHANGED <<accounts, transactions, rowLock>>
    /\ UNCHANGED <<opening, pool, reply, rpc, exec, server>>

\* mutant of TxRecord: from_account_id and to_account_id exchanged
TxRecordSwapped(c) ==
    [id |-> c.txID, from |-> c.toID, to |-> c.fromID, amount |-> c.amount,
     currency |-> c.fromAcc.currency]

\* the row of transactions that recordTransaction inserted
TxRecord(c) ==
    [id |-> c.txID, from |-> c.fromID, to |-> c.toID, amount |-> c.amount,
     currency |-> c.fromAcc.currency]

\* the rows of accounts once the uncommitted versions w are the committed ones
Installed(w) ==
    [a \in AccountIds |->
        IF a \in DOMAIN w THEN [accounts[a] EXCEPT !.balance = w[a]] ELSE accounts[a]]

\* mutant of Commit: a transfer whose from id, to id and amount are those of a
\* committed record is taken for a retry, changes nothing and returns the id of that
\* record
CommitIdempotent(p) ==
    LET c == calls[p]
        same == {r \in transactions :
                    r.from = c.fromID /\ r.to = c.toID /\ r.amount = c.amount}
    IN
    /\ c.pc = "commit"
    /\ accounts' = IF same = {} THEN Installed(c.writes) ELSE accounts
    /\ transactions' = IF same = {} /\ c.logged THEN transactions \cup {TxRecord(c)}
                       ELSE transactions
    /\ rowLock' = Released(p)
    /\ calls' = [calls EXCEPT ![p] =
          [Failed(c, "") EXCEPT !.committed = TRUE,
                                !.txID = IF same = {} THEN c.txID
                                         ELSE (CHOOSE r \in same : TRUE).id]]
    /\ UNCHANGED <<opening, pool, reply, rpc, exec, server>>

\* tx.Commit() succeeds, PerformTransfer returns txID, nil; the deferred
\* tx.Rollback() finds the unit done
Commit(p) ==
    LET c == calls[p] IN
    /\ c.pc = "commit"
    /\ accounts' = Installed(c.writes)
    /\ transactions' = IF c.logged THEN transactions \cup {TxRecord(c)} ELSE transactions
    /\ rowLock' = Released(p)
    /\ calls' = [calls EXCEPT ![p] =
          [Failed(c, "") EXCEPT !.committed = TRUE, !.txID = c.txID]]
    /\ UNCHANGED <<opening, pool, reply, rpc, exec, server>>

\* the text PerformTransfer returns when the store operation at pc fails
StoreErrorText(pc) ==
    CASE pc = "lock1" -> "failed to lock account"
      [] pc = "lock2" -> "failed to lock account"
      [] pc = "debit" -> "failed to debit account: failed to update balance"
      [] pc = "credit" -> "failed to credit account: failed to update balance"
      [] pc = "record" -> "failed to record transaction"
      [] OTHER -> "failed to commit transaction"

\* the pending store operation of the unit returns an error (connection lost,
\* context cancelled or past its deadline), also while it waits for a row lock
StoreError(p) ==
    /\ calls[p].pc \in InUnit
    /\ ReturnError(p, StoreErrorText(calls[p].pc))
    /\ UNCHANGED <<opening, pool, reply, rpc, exec, server>>

\* mutant of Cancel: the lock query run without the context (tx.Get), so that a
\* cancellation is not seen while it waits for the row lock
CancelNotWhileWaiting(p) ==
    /\ calls[p].pc \in InUnit
    /\ calls[p].pc \in {"lock1", "lock2"} =>
          (~accounts[calls[p].want].exists \/ rowLock[calls[p].want] \in {NoUnit, p})
    /\ ReturnError(p, Canceled(StoreErrorText(calls[p].pc)))
    /\ UNCHANGED <<opening, pool, reply, rpc, exec, server>>

\* the context of the invocation is cancelled or passes its deadline while its
\* pending store operation runs or waits for a row lock: the operation returns
\* ctx.Err(), which PerformTransfer wraps and returns
Cancel(p) ==
    /\ calls[p].pc \in InUnit
    /\ ReturnError(p, Canceled(StoreErrorText(calls[p].pc)))
    /\ UNCHANGED <<opening, pool, reply, rpc, exec, server>>

\* fault injection on the store: the UPDATE of the pending debit or credit reports
\* zero rows affected, and UpdateBalance returns its not-found error
ZeroRows(p) ==
    /\ calls[p].pc \in {"debit", "credit"}
    /\ ReturnError(p, IF calls[p].pc = "debit"
                      THEN "failed to debit account: account not found"
                      ELSE "failed to credit account: account not found")
    /\ UNCHANGED <<opening, pool, reply, rpc, exec, server>>

\* the caller has taken the result; the goroutine serves the next request
Return(p) ==
    /\ calls[p].pc = "ret"
    /\ calls' = [calls EXCEPT ![p] = IdleCall]
    /\ UNCHANGED <<accounts, transactions, rowLock, opening, pool, reply, rpc, exec, server>>

\* ------------------------------------------------------------ ledger.Server.Transfer
\* the amounts callers pass to Server.Transfer: any int64, negative ones included
ServerAmounts == (0 - MaxAmount)..MaxAmount

\* the unit of p waits for a row lock whose holder waits for a row lock of p
CrossWait(p) ==
    /\ calls[p].pc \in {"slock1", "slock2"}
    /\ calls[p].want \in AccountIds
    /\ \E q \in Procs \ {p} :
          /\ rowLock[calls[p].want] = q
          /\ calls[q].pc \in {"slock1", "slock2"}
          /\ calls[q].want \in AccountIds
          /\ rowLock[calls[q].want] = p

\* Server.Transfer up to its first lock query: BeginTxx and the deferred Rollback;
\* the arguments are not validated
ServerTransfer(p, f, t, amt) ==
    /\ calls[p].pc = "idle"
    /\ \E b \in {"", "failed to begin transaction"} :
          calls' = [calls EXCEPT ![p] =
             IF b # ""
             THEN [IdleCall EXCEPT !.pc = "ret", !.fromID = f, !.toID = t, !.amount = amt,
                                   !.invoked = TRUE, !.err = b]
             ELSE [IdleCall EXCEPT !.pc = "slock1", !.fromID = f, !.toID = t,
                                   !.amount = amt, !.invoked = TRUE, !.began = TRUE,
                                   !.want = f]]
    /\ UNCHANGED <<accounts, transactions, rowLock, opening, pool, reply, rpc, exec, server>>

\* s.repo.GetAccountWithLock inside the unit of p; k = 1: fromID, k = 2: toID, followed
\* by the funds check
ServerGetAccountWithLock(p, k) ==
    LET c == calls[p]
        id == c.want
    IN  /\ c.pc = (IF k = 1 THEN "slock1" ELSE "slock2")
        /\ IF id \notin AccountIds \/ ~accounts[id].exists
           THEN ReturnError(p, "account not found")
           ELSE /\ rowLock[id] \in {NoUnit, p}
                /\ IF k = 1
                   THEN /\ rowLock' = LockRow(p, id)
                        /\ calls' = [calls EXCEPT ![p] =
                              [c EXCEPT !.pc = "slock2", !.fromAcc = accounts[id],
                                        !.want = c.toID]]
                        /\ UNCHANGED <<accounts, transactions>>
                   ELSE IF c.fromAcc.balance < c.amount
                   THEN ReturnError(p, "insufficient funds")
                   ELSE /\ rowLock' = LockRow(p, id)
                        /\ calls' = [calls EXCEPT ![p] =
                              [c EXCEPT !.pc = "sdebit", !.toAcc = accounts[id],
                                        !.want = EmptyId]]
                        /\ UNCHANGED <<accounts, transactions>>
        /\ UNCHANGED <<opening, pool, reply, rpc, exec, server>>

\* the store finds the units waiting for each other and makes the lock query of one
\* of them fail (deadlock detected)
ServerDeadlock(p) ==
    /\ CrossWait(p)
    /\ ReturnError(p, "deadlock detected")
    /\ UNCHANGED <<opening, pool, reply, rpc, exec, server>>

\* UPDATE accounts SET balance_cents = balance_cents - amount WHERE id = fromID
ServerDebit(p) ==
    /\ calls[p].pc = "sdebit"
    /\ UpdateBalance(p, calls[p].fromID, -calls[p].amount, "scredit", "")
    /\ UNCHANGED <<opening, pool, reply, rpc, exec, server>>

\* UPDATE accounts SET balance_cents = balance_cents + amount WHERE id = toID
ServerCredit(p) ==
    /\ calls[p].pc = "scredit"
    /\ UpdateBalance(p, calls[p].toID, calls[p].amount, "scommit", "")
    /\ UNCHANGED <<opening, pool, reply, rpc, exec, server>>

\* return tx.Commit(), which succeeds
ServerCommit(p) ==
    LET c == calls[p] IN
    /\ c.pc = "scommit"
    /\ accounts' = Installed(c.writes)
    /\ rowLock' = Released(p)
    /\ calls' = [calls EXCEPT ![p] =
          [IdleCall EXCEPT !.pc = "ret", !.fromID = c.fromID, !.toID = c.toID,
                           !.amount = c.amount, !.invoked = TRUE, !.began = TRUE,
                           !.committed = TRUE, !.commits = 1, !.rollbacks = 1]]
    /\ UNCHANGED <<transactions, opening, pool, reply, rpc, exec, server>>

\* ------------------------------------------------------------ account CRUD
\* Handler.CreateAccount and Repository.CreateAccount: one INSERT, committed at once
CreateAccount(id, bal, cur) ==
    /\ cur # ""
    /\ ~(bal < 0)
    /\ ~accounts[id].exists
    /\ accounts' = [accounts EXCEPT ![id] = Account(bal, cur)]
    /\ opening' = [opening EXCEPT ![id] = bal]
    /\ UNCHANGED <<transactions, rowLock, calls, pool, reply, rpc, exec, server>>

\* mutant of UpdateAccount: the UPDATE does not wait for the row lock
UpdateAccountNoWait(id, cur) ==
    /\ cur # ""
    /\ accounts[id].exists
    /\ accounts' = [accounts EXCEPT ![id].currency = cur]
    /\ UNCHANGED <<transactions, rowLock, calls, opening, pool, reply, rpc, exec, server>>

\* Handler.UpdateAccount and Repository.UpdateAccount: one UPDATE, which waits for
\* the row lock, committed at once
UpdateAccount(id, cur) ==
    /\ cur # ""
    /\ accounts[id].exists
    /\ rowLock[id] = NoUnit
    /\ accounts' = [accounts EXCEPT ![id].currency = cur]
    /\ UNCHANGED <<transactions, rowLock, calls, opening, pool, reply, rpc, exec, server>>

\* mutant of DeleteAccount: the foreign keys declared ON DELETE CASCADE
DeleteAccountCascade(id) ==
    /\ accounts[id].exists
    /\ rowLock[id] = NoUnit
    /\ accounts' = [accounts EXCEPT ![id] = NoRow]
    /\ transactions' = {r \in transactions : r.from # id /\ r.to # id}
    /\ opening' = [opening EXCEPT ![id] = 0]
    /\ UNCHANGED <<rowLock, calls, pool, reply, rpc, exec, server>>

\* mutant of DeleteAccount: the DELETE does not wait for the row lock
DeleteAccountNoWait(id) ==
    /\ accounts[id].exists
    /\ \A r \in transactions : r.from # id /\ r.to # id
    /\ accounts' = [accounts EXCEPT ![id] = NoRow]
    /\ opening' = [opening EXCEPT ![id] = 0]
    /\ UNCHANGED <<transactions, rowLock, calls, pool, reply, rpc, exec, server>>

\* mutant of DeleteAccount: transactions declared without its foreign keys
DeleteAccountNoForeignKey(id) ==
    /\ accounts[id].exists
    /\ rowLock[id] = NoUnit
    /\ accounts' = [accounts EXCEPT ![id] = NoRow]
    /\ opening' = [opening EXCEPT ![id] = 0]
    /\ UNCHANGED <<transactions, rowLock, calls, pool, reply, rpc, exec, server>>

\* Handler.DeleteAccount and Repository.DeleteAccount: one DELETE, which waits for
\* the row lock and fails while a transactions row references the account
DeleteAccount(id) ==
    /\ accounts[id].exists
    /\ rowLock[id] = NoUnit
    /\ \A r \in transactions : r.from # id /\ r.to # id
    /\ accounts' = [accounts EXCEPT ![id] = NoRow]
    /\ opening' = [opening EXCEPT ![id] = 0]
    /\ UNCHANGED <<transactions, rowLock, calls, pool, reply, rpc, exec, server>>

\* ------------------------------------------------------------ GetBalance
NoReply ==
    [id |-> EmptyId, found |-> FALSE, balance |-> 0, currency |-> "", err |-> "",
     held |-> NoUnit]   \* history: the unit holding the row lock when the row was read

\* Repository.GetAccount: a plain SELECT on the pool, which reads the committed row
\* and takes no row lock
GetAccount(id) ==
    IF accounts[id].exists
    THEN [NoReply EXCEPT !.id = id, !.found = TRUE, !.balance = accounts[id].balance,
                         !.currency = accounts[id].currency, !.held = rowLock[id]]
    ELSE [NoReply EXCEPT !.id = id, !.err = "account not found"]

\* mutant of GetBalance: the read made with SELECT ... FOR UPDATE
GetBalanceWithLock(id) ==
    /\ (id # EmptyId /\ accounts[id].exists) => rowLock[id] = NoUnit
    /\ reply' = IF id = EmptyId
                THEN [NoReply EXCEPT !.err = "account ID cannot be empty"]
                ELSE GetAccount(id)
    /\ UNCHANGED <<accounts, transactions, rowLock, calls, opening, pool, rpc, exec, server>>

\* LedgerService.GetBalance
GetBalance(id) ==
    /\ reply' = IF id = EmptyId
                THEN [NoReply EXCEPT !.err = "account ID cannot be empty"]
                ELSE GetAccount(id)
    /\ UNCHANGED <<accounts, transactions, rowLock, calls, opening, pool, rpc, exec, server>>

\* the SELECT of GetBalance fails (connection lost, context cancelled)
GetBalanceFails(id) ==
    /\ id # EmptyId
    /\ reply' = [NoReply EXCEPT !.id = id, !.err = "failed to get account"]
    /\ UNCHANGED <<accounts, transactions, rowLock, calls, opening, pool, rpc, exec, server>>

\* ------------------------------------------------------------ NotificationWorkerPool
Notifications == [AccountID : AccountIds, Message : {"transfer"}]
NoJob == [AccountID |-> EmptyId, Message |-> ""]

\* NewNotificationWorkerPool(bufferSize) followed by Start(workerCount): an empty
\* channel, every worker goroutine spawned and not yet at its receive
NewNotificationWorkerPool(bufferSize, workerCount) ==
    [JobQueue |-> << >>, size |-> bufferSize,
     workers |-> [w \in 1..workerCount |-> [at |-> "idle", job |-> NoJob]],
     offered |-> 0,     \* history: the number of Enqueue calls
     dropped |-> 0]     \* history: the number of them that took the default branch

Workers == DOMAIN pool.workers

\* the workers parked in the receive of range p.JobQueue
Parked == {w \in Workers : pool.workers[w].at = "recv"}

\* mutant of Enqueue: a plain send p.JobQueue <- notification, without the default
EnqueueBlocking(n) ==
    /\ pool.offered < MaxOffered
    /\ Parked # {} \/ Len(pool.JobQueue) < pool.size
    /\ pool' =
          LET q == [pool EXCEPT !.offered = @ + 1] IN
          IF Parked # {}
          THEN [q EXCEPT !.workers[CHOOSE w \in Parked : \A v \in Parked : w <= v] =
                            [at |-> "log", job |-> n]]
          ELSE [q EXCEPT !.JobQueue = Append(@, n)]
    /\ UNCHANGED <<accounts, transactions, rowLock, calls, opening, reply, rpc, exec, server>>

\* Enqueue: select { case p.JobQueue <- notification: default: log }. The send goes to
\* a parked receiver if there is one, else into the buffer if it has room
Enqueue(n) ==
    /\ pool.offered < MaxOffered
    /\ pool' =
          LET q == [pool EXCEPT !.offered = @ + 1] IN
          IF Parked # {}
          THEN [q EXCEPT !.workers[CHOOSE w \in Parked : \A v \in Parked : w <= v] =
                            [at |-> "log", job |-> n]]
          ELSE IF Len(pool.JobQueue) < pool.size
          THEN [q EXCEPT !.JobQueue = Append(@, n)]
          ELSE [q EXCEPT !.dropped = @ + 1]
    /\ UNCHANGED <<accounts, transactions, rowLock, calls, opening, reply, rpc, exec, server>>

\* mutant of WorkerReceive: the receive leaves the notification in the buffer
WorkerReceivePeek(w) ==
    /\ pool.workers[w].at = "idle"
    /\ pool' = IF pool.JobQueue = << >>
               THEN [pool EXCEPT !.workers[w].at = "recv"]
               ELSE [pool EXCEPT !.workers[w] = [at |-> "log", job |-> Head(pool.JobQueue)]]
    /\ UNCHANGED <<accounts, transactions, rowLock, calls, opening, reply, rpc, exec, server>>

\* a worker reaches its receive: it takes the head of the buffer, or parks on the
\* empty channel
WorkerReceive(w) ==
    /\ pool.workers[w].at = "idle"
    /\ pool' = IF pool.JobQueue = << >>
               THEN [pool EXCEPT !.workers[w].at = "recv"]
               ELSE [pool EXCEPT !.workers[w] = [at |-> "log", job |-> Head(pool.JobQueue)],
                                 !.JobQueue = Tail(@)]
    /\ UNCHANGED <<accounts, transactions, rowLock, calls, opening, reply, rpc, exec, server>>

\* a worker logs the notification it holds and loops
WorkerLog(w) ==
    /\ pool.workers[w].at = "log"
    /\ pool' = [pool EXCEPT !.workers[w] = [at |-> "idle", job |-> NoJob]]
    /\ UNCHANGED <<accounts, transactions, rowLock, calls, opening, reply, rpc, exec, server>>

\* ------------------------------------------------------------ AuthInterceptor
\* the signing methods of the family jwt.SigningMethodHMAC, and the alg values of the
\* tokens clients send
HMAC == {"HS256"}
Algs == {"HS256", "RS256", "none"}

\* cfg.JWTSecret, and the keys clients sign with
JWTSecret == "production-secret-key"
Keys == {JWTSecret, "guessed-key"}

\* a string that is not three base64url segments
Garbage == [wellFormed |-> FALSE, alg |-> "none", key |-> "guessed-key", expired |-> FALSE]

\* token strings: their header alg, the key of their signature, whether exp is past;
\* clients send garbage, tokens under the secret with any alg, and HMAC tokens under
\* either key, expired or not
Tokens ==
    {Garbage}
        \cup [wellFormed : {TRUE}, alg : Algs, key : {JWTSecret}, expired : {FALSE}]
        \cup [wellFormed : {TRUE}, alg : HMAC, key : Keys, expired : BOOLEAN]

\* values of the authorization metadata key: a scheme prefix and a token string
HeaderValues == [prefix : {"", "Bearer ", "bearer "}, token : Tokens]

\* a well-formed, HMAC-signed, unexpired bearer token under the configured secret
GoodValue ==
    [prefix |-> "Bearer ",
     token |-> [wellFormed |-> TRUE, alg |-> "HS256", key |-> JWTSecret, expired |-> FALSE]]

\* incoming requests: without metadata, or with metadata holding no, one or two
\* authorization values
NoMetadata == [md |-> FALSE, authorization |-> << >>]
Requests ==
    {NoMetadata} \cup
    {[md |-> TRUE, authorization |-> a] :
        a \in {<< >>} \cup {<<v>> : v \in HeaderValues}
                      \cup {<<v, GoodValue>> : v \in {h \in HeaderValues : h.token = Garbage}}}

\* strings.TrimPrefix(v, prefix): v without the leading prefix when it has it
TrimPrefix(v, prefix) == IF v.prefix = prefix THEN [v EXCEPT !.prefix = ""] ELSE v

\* mutant of Verify: the signature is not compared
VerifyUnchecked(token, key) == TRUE

\* SigningMethodHMAC.Verify: the signature is the HMAC of the token under key
Verify(token, key) == token.key = key

\* jwt.Parse(tokenStr, keyfunc) with the keyfunc of AuthInterceptor: the token is
\* split and decoded, the keyfunc refuses a method outside SigningMethodHMAC and
\* returns the secret, the signature is verified, then the claims are validated
Parse(tokenStr, secretKey) ==
    IF tokenStr.prefix # "" \/ ~tokenStr.token.wellFormed
    THEN [Valid |-> FALSE, err |-> "token is malformed"]
    ELSE IF tokenStr.token.alg \notin HMAC
    THEN [Valid |-> FALSE, err |-> "unexpected signing method"]
    ELSE IF ~Verify(tokenStr.token, secretKey)
    THEN [Valid |-> FALSE, err |-> "signature is invalid"]
    ELSE IF tokenStr.token.expired
    THEN [Valid |-> FALSE, err |-> "token is expired"]
    ELSE [Valid |-> TRUE, err |-> ""]

\* no request has arrived
NoCall == [req |-> NoMetadata, code |-> "", message |-> "", admitted |-> FALSE]

\* return nil, status.Error(codes.Unauthenticated, message)
Rejected(req, message) ==
    [req |-> req, code |-> "Unauthenticated", message |-> message, admitted |-> FALSE]

\* the unary interceptor AuthInterceptor(secretKey) on the request req, up to its
\* decision: a status, or the call of the wrapped handler
AuthInterceptor(secretKey, req) ==
    /\ rpc' =
          IF ~req.md THEN Rejected(req, "metadata missing")
          ELSE IF Len(req.authorization) = 0
          THEN Rejected(req, "authorization token missing")
          ELSE LET token == Parse(TrimPrefix(req.authorization[1], "Bearer "), secretKey)
               IN  IF token.err # "" \/ ~token.Valid
                   THEN Rejected(req, "invalid or expired token")
                   ELSE [req |-> req, code |-> "", message |-> "", admitted |-> TRUE]
    /\ UNCHANGED <<accounts, transactions, rowLock, calls, opening, pool, reply, exec, server>>

\* ------------------------------------------------------------ database.ExecTx
\* no ExecTx call in progress
NoExec ==
    [pc |-> "idle", began |-> FALSE,
     writes |-> NoWrites,   \* uncommitted row versions fn wrote through tx
     fnCalls |-> 0,         \* history: invocations of fn
     fnErr |-> "",          \* history: what fn returned
     commits |-> 0, rollbacks |-> 0,   \* history: tx.Commit(), tx.Rollback() calls
     commitErr |-> "",      \* history: what tx.Commit() returned
     err |-> ""]            \* what ExecTx returned

\* the errors fn returns, and those of db.BeginTxx and tx.Commit(); "" is nil
FnErrors == {"", "fn: refused", "fn: statement failed"}
BeginErrors == {"", "begin failed"}
CommitErrors == {"", "commit failed"}

\* ExecTx up to its call of fn: db.BeginTxx, whose error it returns
ExecTx(b) ==
    /\ exec.pc = "idle"
    /\ exec' = IF b # ""
               THEN [NoExec EXCEPT !.pc = "ret", !.err = b]
               ELSE [NoExec EXCEPT !.pc = "fn", !.began = TRUE, !.fnCalls = 1]
    /\ UNCHANGED <<accounts, transactions, rowLock, calls, opening, pool, reply, rpc, server>>

\* fn runs a statement through tx: an uncommitted version of a row of accounts
FnWrite(id, delta) ==
    LET cur == IF id \in DOMAIN exec.writes THEN exec.writes[id] ELSE accounts[id].balance
    IN  /\ exec.pc = "fn"
        /\ accounts[id].exists
        /\ cur + delta \in 0..MaxAmount
        /\ exec' = [exec EXCEPT !.writes = (id :> (cur + delta)) @@ exec.writes]
        /\ UNCHANGED <<accounts, transactions, rowLock, calls, opening, pool, reply, rpc,
                       server>>

\* mutant of FnReturns: the rollback deferred, as in PerformTransfer, and so invoked
\* after tx.Commit() as well
FnReturnsDeferred(e, c) ==
    /\ exec.pc = "fn"
    /\ exec' = IF e # ""
               THEN [exec EXCEPT !.pc = "ret", !.writes = NoWrites, !.fnErr = e,
                                 !.rollbacks = @ + 1, !.err = e]
               ELSE [exec EXCEPT !.pc = "ret", !.writes = NoWrites, !.commits = @ + 1,
                                 !.rollbacks = @ + 1, !.commitErr = c, !.err = c]
    /\ accounts' = IF e = "" /\ c = "" THEN Installed(exec.writes) ELSE accounts
    /\ UNCHANGED <<transactions, rowLock, calls, opening, pool, reply, rpc, server>>

\* fn returns e and ExecTx ends the unit: tx.Rollback() and return e when e is an
\* error, else return tx.Commit(), which returns c
FnReturns(e, c) ==
    /\ exec.pc = "fn"
    /\ exec' = IF e # ""
               THEN [exec EXCEPT !.pc = "ret", !.writes = NoWrites, !.fnErr = e,
                                 !.rollbacks = @ + 1, !.err = e]
               ELSE [exec EXCEPT !.pc = "ret", !.writes = NoWrites, !.commits = @ + 1,
                                 !.commitErr = c, !.err = c]
    /\ accounts' = IF e = "" /\ c = "" THEN Installed(exec.writes) ELSE accounts
    /\ UNCHANGED <<transactions, rowLock, calls, opening, pool, reply, rpc, server>>

\* the caller has taken the result of ExecTx
ExecTxReturn ==
    /\ exec.pc = "ret"
    /\ exec' = NoExec
    /\ UNCHANGED <<accounts, transactions, rowLock, calls, opening, pool, reply, rpc, server>>

\* ------------------------------------------------------------ main: shutdown
\* grpcServer.Serve(lis) is accepting; the shutdown goroutine waits for a signal
Serving ==
    [phase |-> "serving",     \* serving, draining (GracefulStop running), stopped
     at |-> "signal",         \* the shutdown goroutine: signal, select, done
     timer |-> "off",         \* context.WithTimeout(30s): off, running, expired
     stopper |-> "off",       \* the goroutine of GracefulStop: off, spawned, draining, closed
     how |-> "",              \* what stopped the server: graceful, forced
     blocked |-> FALSE]       \* a call waited for a row lock when Stop() cut it

\* close(done) has run: GracefulStop returned
done == server.stopper = "closed"

\* calls the server has accepted and not answered yet
PendingCalls == {p \in Procs : calls[p].pc # "idle"}

\* p waits in its lock query for a row another unit holds
BlockedOnRow(p) ==
    /\ calls[p].pc \in {"lock1", "lock2"}
    /\ calls[p].want \in AccountIds
    /\ accounts[calls[p].want].exists
    /\ rowLock[calls[p].want] \notin {NoUnit, p}

\* SIGINT or SIGTERM arrives on sigCh: the goroutine creates the 30 s context and
\* done, spawns the goroutine of GracefulStop and blocks in select
Signal ==
    /\ server.at = "signal"
    /\ server' = [server EXCEPT !.at = "select", !.timer = "running",
                                !.stopper = "spawned"]
    /\ UNCHANGED <<accounts, transactions, rowLock, calls, opening, pool, reply, rpc, exec>>

\* grpcServer.GracefulStop() is called: the listener closes, no new call is accepted,
\* and the call waits for the pending ones
GracefulStop ==
    /\ server.stopper = "spawned"
    /\ server' = [server EXCEPT !.stopper = "draining",
                                !.phase = IF @ = "serving" THEN "draining" ELSE @]
    /\ UNCHANGED <<accounts, transactions, rowLock, calls, opening, pool, reply, rpc, exec>>

\* GracefulStop returns, once every pending call has finished or Stop() has closed
\* the connections, and close(done) runs
GracefulStopReturns ==
    /\ server.stopper = "draining"
    /\ server.phase = "stopped" \/ PendingCalls = {}
    /\ server' = [server EXCEPT !.stopper = "closed", !.phase = "stopped",
                                !.how = IF server.phase = "stopped" THEN @ ELSE "graceful"]
    /\ UNCHANGED <<accounts, transactions, rowLock, calls, opening, pool, reply, rpc, exec>>

\* the 30 seconds of context.WithTimeout pass while the goroutine is in select
Timeout ==
    /\ server.timer = "running"
    /\ server.at = "select"
    /\ server' = [server EXCEPT !.timer = "expired"]
    /\ UNCHANGED <<accounts, transactions, rowLock, calls, opening, pool, reply, rpc, exec>>

\* select, case <-done: the goroutine logs and returns; the deferred cancel() stops
\* the timer
SelectDone ==
    /\ server.at = "select"
    /\ done
    /\ server' = [server EXCEPT !.at = "done",
                                !.timer = IF @ = "running" THEN "off" ELSE @]
    /\ UNCHANGED <<accounts, transactions, rowLock, calls, opening, pool, reply, rpc, exec>>

\* mutant of Stop: the branch only logs, the server is left to GracefulStop alone
StopLogsOnly ==
    /\ server' = [server EXCEPT !.at = "done"]
    /\ UNCHANGED <<accounts, transactions, rowLock, calls>>

\* grpcServer.Stop(): listener and connections are closed, which cancels the context
\* of every pending call; its pending store operation returns the context's error,
\* also while it waits for a row lock, and the deferred Rollback ends its unit.
\* Stop() on a stopped server changes nothing.
Stop ==
    IF server.phase = "stopped"
    THEN /\ server' = [server EXCEPT !.at = "done"]
         /\ UNCHANGED <<accounts, transactions, rowLock, calls>>
    ELSE /\ server' = [server EXCEPT !.at = "done", !.phase = "stopped", !.how = "forced",
                                     !.blocked = \E p \in Procs : BlockedOnRow(p)]
         /\ calls' = [p \in Procs |->
               IF calls[p].pc \in InUnit
               THEN Failed(calls[p], Canceled(StoreErrorText(calls[p].pc)))
               ELSE calls[p]]
         /\ rowLock' = [a \in AccountIds |->
               IF rowLock[a] \in Procs /\ calls[rowLock[a]].pc \in InUnit
               THEN NoUnit ELSE rowLock[a]]
         /\ UNCHANGED <<accounts, transactions>>

\* select, case <-ctx.Done(): the goroutine logs and forces the stop
SelectTimeout ==
    /\ server.at = "select"
    /\ server.timer = "expired"
    /\ Stop
    /\ UNCHANGED <<opening, pool, reply, rpc, exec>>

\* the steps of the shutdown goroutine, of the goroutine of GracefulStop and of
\* the timer
ShutdownStep ==
    \/ GracefulStop
    \/ GracefulStopReturns
    \/ Timeout
    \/ SelectDone
    \/ SelectTimeout

\* ------------------------------------------------------------ specifications
\* the schema of migration 001 with no rows, n idle request goroutines
Empty(ids, n) ==
    /\ accounts = [a \in ids |-> NoRow]
    /\ transactions = {}
    /\ rowLock = [a \in ids |-> NoUnit]
    /\ calls = [p \in 1..n |-> IdleCall]
    /\ opening = [a \in ids |-> 0]
    /\ pool = NewNotificationWorkerPool(MaxBuffer, MaxWorkers)
    /\ reply = NoReply
    /\ rpc = NoCall
    /\ exec = NoExec
    /\ server = Serving

\* the sample accounts of migration 002 (all USD), n idle request goroutines
Sample(ids, n) ==
    /\ \E b \in [ids -> 1..MaxInit] :
          /\ accounts = [a \in ids |-> Account(b[a], "USD")]
          /\ opening = b
    /\ transactions = {}
    /\ rowLock = [a \in ids |-> NoUnit]
    /\ calls = [p \in 1..n |-> IdleCall]
    /\ pool = NewNotificationWorkerPool(MaxBuffer, MaxWorkers)
    /\ reply = NoReply
    /\ rpc = NoCall
    /\ exec = NoExec
    /\ server = Serving

\* the store operations of the unit of p that succeed or refuse
Step(p) ==
    \/ \E k \in {1, 2} : GetAccountWithLock(p, k)
    \/ Debit(p)
    \/ Credit(p)
    \/ recordTransaction(p)
    \/ Commit(p)

\* every returned result has been taken by its caller: taking it is local to the
\* request goroutine, so it is scheduled before the next step of the system
Taken == \A q \in Procs : calls[q].pc # "ret"

\* the engine under arbitrary callers, store errors and account CRUD
Init == Empty(LedgerIds, NCalls)

Next ==
    \/ \E p \in Procs, f \in Ids, t \in Ids, amt \in Amounts :
          Taken /\ PerformTransfer(p, f, t, amt)
    \/ \E p \in Procs, k \in {1, 2} : Taken /\ GetAccountWithLock(p, k)
    \/ \E p \in Procs : Taken /\ Debit(p)
    \/ \E p \in Procs : Taken /\ Credit(p)
    \/ \E p \in Procs : Taken /\ recordTransaction(p)
    \/ \E p \in Procs : Taken /\ Commit(p)
    \/ \E p \in Procs : Taken /\ StoreError(p)
    \/ \E p \in Procs : Taken /\ Cancel(p)
    \/ \E p \in Procs : Return(p)
    \/ \E id \in AccountIds, bal \in InitBalances, cur \in Currencies \cup {""} :
          Taken /\ CreateAccount(id, bal, cur)
    \/ \E id \in AccountIds, cur \in Currencies \cup {""} : Taken /\ UpdateAccount(id, cur)
    \/ \E id \in AccountIds : Taken /\ DeleteAccount(id)

Spec == Init /\ [][Next]_vars

\* the same system entered through the gRPC handler
InitGateway == Empty(LedgerIds, NGate)

NextGateway ==
    \/ \E p \in Procs, f \in Ids, t \in Ids, amt \in Amounts, cur \in Currencies \cup {""} :
          Taken /\ HandlerTransfer(p, f, t, amt, cur)
    \/ \E p \in Procs, k \in {1, 2} : Taken /\ GetAccountWithLock(p, k)
    \/ \E p \in Procs : Taken /\ Debit(p)
    \/ \E p \in Procs : Taken /\ Credit(p)
    \/ \E p \in Procs : Taken /\ recordTransaction(p)
    \/ \E p \in Procs : Taken /\ Commit(p)
    \/ \E p \in Procs : Taken /\ StoreError(p)
    \/ \E p \in Procs : Taken /\ Cancel(p)
    \/ \E p \in Procs : Return(p)
    \/ \E id \in AccountIds, bal \in InitBalances, cur \in Currencies \cup {""} :
          Taken /\ CreateAccount(id, bal, cur)
    \/ \E id \in AccountIds, cur \in Currencies \cup {""} : Taken /\ UpdateAccount(id, cur)
    \/ \E id \in AccountIds : Taken /\ DeleteAccount(id)

SpecGateway == InitGateway /\ [][NextGateway]_vars

\* NCalls invocations, one per goroutine, on the sample accounts with a store that
\* never fails: the results stay in the frames
InitRace == Sample(RingIds, NCalls)

NextRace ==
    \/ \E p \in Procs, f \in Ids, t \in Ids, amt \in Amounts : PerformTransfer(p, f, t, amt)
    \/ \E p \in Procs, k \in {1, 2} : GetAccountWithLock(p, k)
    \/ \E p \in Procs : Debit(p)
    \/ \E p \in Procs : Credit(p)
    \/ \E p \in Procs : recordTransaction(p)
    \/ \E p \in Procs : Commit(p)

SpecRace == InitRace /\ [][NextRace]_vars

\* NRing invocations, one per goroutine, on the sample accounts; the store serves
\* every operation that can proceed, and hands a released row lock to a waiter
InitRing == Sample(RingIds, NRing)

NextRing ==
    \/ \E p \in Procs, f \in AccountIds : \E t \in AccountIds \ {f} :
          PerformTransfer(p, f, t, 1)
    \/ \E p \in Procs, k \in {1, 2} : GetAccountWithLock(p, k)
    \/ \E p \in Procs : Debit(p)
    \/ \E p \in Procs : Credit(p)
    \/ \E p \in Procs : recordTransaction(p)
    \/ \E p \in Procs : Commit(p)

SpecRing == InitRing /\ [][NextRing]_vars /\ \A p \in 1..NRing : WF_vars(Step(p))

\* one request goroutine for transfers, account CRUD, and balance reads at any moment
InitRead == Empty(LedgerIds, NGate)

NextRead ==
    \/ \E p \in Procs, f \in Ids, t \in Ids, amt \in Amounts :
          Taken /\ PerformTransfer(p, f, t, amt)
    \/ \E p \in Procs, k \in {1, 2} : Taken /\ GetAccountWithLock(p, k)
    \/ \E p \in Procs : Taken /\ Debit(p)
    \/ \E p \in Procs : Taken /\ Credit(p)
    \/ \E p \in Procs : Taken /\ recordTransaction(p)
    \/ \E p \in Procs : Taken /\ Commit(p)
    \/ \E p \in Procs : Taken /\ StoreError(p)
    \/ \E p \in Procs : Taken /\ Cancel(p)
    \/ \E p \in Procs : Return(p)
    \/ \E id \in AccountIds, bal \in InitBalances, cur \in Currencies \cup {""} :
          Taken /\ CreateAccount(id, bal, cur)
    \/ \E id \in AccountIds, cur \in Currencies \cup {""} : Taken /\ UpdateAccount(id, cur)
    \/ \E id \in AccountIds : Taken /\ DeleteAccount(id)
    \/ \E id \in Ids : Taken /\ GetBalance(id)
    \/ \E id \in Ids : Taken /\ GetBalanceFails(id)

SpecRead == InitRead /\ [][NextRead]_vars

\* the notification pool alone, for every buffer size and worker count, with callers
\* that offer notifications at any moment
InitPool ==
    /\ accounts = [a \in LedgerIds |-> NoRow]
    /\ transactions = {}
    /\ rowLock = [a \in LedgerIds |-> NoUnit]
    /\ calls = [p \in 1..NGate |-> IdleCall]
    /\ opening = [a \in LedgerIds |-> 0]
    /\ \E bufferSize \in 0..MaxBuffer, workerCount \in 0..MaxWorkers :
          pool = NewNotificationWorkerPool(bufferSize, workerCount)
    /\ reply = NoReply
    /\ rpc = NoCall
    /\ exec = NoExec
    /\ server = Serving

NextPool ==
    \/ \E n \in Notifications : Enqueue(n)
    \/ \E w \in Workers : WorkerReceive(w)
    \/ \E w \in Workers : WorkerLog(w)

SpecPool == InitPool /\ [][NextPool]_vars

\* the pool under a scheduler that lets every started worker goroutine run
WorkerStep(w) == w \in Workers /\ (WorkerReceive(w) \/ WorkerLog(w))

SpecPoolFair ==
    InitPool /\ [][NextPool]_vars /\ \A w \in 1..MaxWorkers : WF_vars(WorkerStep(w))

\* NCalls invocations, one per goroutine, on the sample accounts, with store errors and
\* cancellations; the store serves every operation that can proceed
NextFair ==
    \/ \E p \in Procs, f \in Ids, t \in Ids, amt \in Amounts : PerformTransfer(p, f, t, amt)
    \/ \E p \in Procs, k \in {1, 2} : GetAccountWithLock(p, k)
    \/ \E p \in Procs : Debit(p)
    \/ \E p \in Procs : Credit(p)
    \/ \E p \in Procs : recordTransaction(p)
    \/ \E p \in Procs : Commit(p)
    \/ \E p \in Procs : StoreError(p)
    \/ \E p \in Procs : Cancel(p)

SpecFair == InitRace /\ [][NextFair]_vars /\ \A p \in 1..NCalls : WF_vars(Step(p))

\* the gateway over a store with fault injection on its UPDATE statements
NextInject ==
    \/ \E p \in Procs, f \in Ids, t \in Ids, amt \in Amounts, cur \in Currencies \cup {""} :
          Taken /\ HandlerTransfer(p, f, t, amt, cur)
    \/ \E p \in Procs, k \in {1, 2} : Taken /\ GetAccountWithLock(p, k)
    \/ \E p \in Procs : Taken /\ Debit(p)
    \/ \E p \in Procs : Taken /\ Credit(p)
    \/ \E p \in Procs : Taken /\ recordTransaction(p)
    \/ \E p \in Procs : Taken /\ Commit(p)
    \/ \E p \in Procs : Taken /\ ZeroRows(p)
    \/ \E p \in Procs : Return(p)
    \/ \E id \in AccountIds, bal \in InitBalances, cur \in Currencies \cup {""} :
          Taken /\ CreateAccount(id, bal, cur)

SpecInject == InitGateway /\ [][NextInject]_vars

\* a caller that repeats its requests: NCalls invocations, kept once returned, on two
\* USD accounts that can each pay the largest amount twice
InitRetry ==
    /\ accounts = [a \in LedgerIds |-> Account(MaxAmount + MaxAmount, "USD")]
    /\ opening = [a \in LedgerIds |-> MaxAmount + MaxAmount]
    /\ transactions = {}
    /\ rowLock = [a \in LedgerIds |-> NoUnit]
    /\ calls = [p \in 1..NCalls |-> IdleCall]
    /\ pool = NewNotificationWorkerPool(MaxBuffer, MaxWorkers)
    /\ reply = NoReply
    /\ rpc = NoCall
    /\ exec = NoExec
    /\ server = Serving

NextRetry ==
    \/ \E p \in Procs, f \in Ids, t \in Ids, amt \in Amounts : PerformTransfer(p, f, t, amt)
    \/ \E p \in Procs, k \in {1, 2} : GetAccountWithLock(p, k)
    \/ \E p \in Procs : Debit(p)
    \/ \E p \in Procs : Credit(p)
    \/ \E p \in Procs : recordTransaction(p)
    \/ \E p \in Procs : Commit(p)
    \/ \E p \in Procs : StoreError(p)

SpecRetry == InitRetry /\ [][NextRetry]_vars

\* the gRPC server of main: every unary call passes AuthInterceptor, which calls the
\* handler of the request it admitted; the clients vary their credentials and send
\* USD requests of one amount
InitAuth == Empty(LedgerIds, NGate)

NextAuth ==
    \/ \E req \in Requests : AuthInterceptor(JWTSecret, req)
    \/ \E p \in Procs, f \in LedgerIds, t \in LedgerIds :
          rpc.admitted /\ Taken /\ HandlerTransfer(p, f, t, MaxInit, "USD")
    \/ \E p \in Procs, k \in {1, 2} : GetAccountWithLock(p, k)
    \/ \E p \in Procs : Debit(p)
    \/ \E p \in Procs : Credit(p)
    \/ \E p \in Procs : recordTransaction(p)
    \/ \E p \in Procs : Commit(p)
    \/ \E p \in Procs : Return(p)
    \/ \E id \in AccountIds : rpc.admitted /\ Taken /\ CreateAccount(id, MaxInit, "USD")
    \/ \E id \in AccountIds, cur \in Currencies :
          rpc.admitted /\ Taken /\ UpdateAccount(id, cur)
    \/ \E id \in AccountIds : rpc.admitted /\ Taken /\ DeleteAccount(id)
    \/ \E id \in {EmptyId, <<1>>} : rpc.admitted /\ Taken /\ GetBalance(id)

SpecAuth == InitAuth /\ [][NextAuth]_vars

\* one request goroutine that serves one PerformTransfer after the other, on every
\* table of up to two accounts: each row missing or present with any balance and
\* currency
InitSolo ==
    /\ accounts \in [LedgerIds -> {NoRow} \cup {Account(b, c) : b \in 0..MaxInit, c \in Currencies}]
    /\ opening = [a \in LedgerIds |-> accounts[a].balance]
    /\ transactions = {}
    /\ rowLock = [a \in LedgerIds |-> NoUnit]
    /\ calls = [p \in 1..NGate |-> IdleCall]
    /\ pool = NewNotificationWorkerPool(MaxBuffer, MaxWorkers)
    /\ reply = NoReply
    /\ rpc = NoCall
    /\ exec = NoExec
    /\ server = Serving

NextSolo ==
    \/ \E p \in Procs, f \in Ids, t \in Ids, amt \in Amounts : PerformTransfer(p, f, t, amt)
    \/ \E p \in Procs, k \in {1, 2} : GetAccountWithLock(p, k)
    \/ \E p \in Procs : Debit(p)
    \/ \E p \in Procs : Credit(p)
    \/ \E p \in Procs : recordTransaction(p)
    \/ \E p \in Procs : Commit(p)
    \/ \E p \in Procs : Return(p)

SpecSolo == InitSolo /\ [][NextSolo]_vars

\* callers of ExecTx whose fn writes balances through the unit and returns nil or an
\* error, on the sample accounts
InitExec == Sample(LedgerIds, NGate)

NextExec ==
    \/ \E b \in BeginErrors : ExecTx(b)
    \/ \E id \in AccountIds, delta \in {-1, 1} : FnWrite(id, delta)
    \/ \E e \in FnErrors, c \in CommitErrors : FnReturns(e, c)
    \/ ExecTxReturn

SpecExec == InitExec /\ [][NextExec]_vars

\* NCalls invocations of ledger.Server.Transfer, one per goroutine, with any ids and
\* amounts on the sample accounts
InitServer == Sample(LedgerIds, NCalls)

NextServer ==
    \/ \E p \in Procs, f \in Ids, t \in Ids, amt \in ServerAmounts : ServerTransfer(p, f, t, amt)
    \/ \E p \in Procs, k \in {1, 2} : ServerGetAccountWithLock(p, k)
    \/ \E p \in Procs : ServerDeadlock(p)
    \/ \E p \in Procs : ServerDebit(p)
    \/ \E p \in Procs : ServerCredit(p)
    \/ \E p \in Procs : ServerCommit(p)

SpecServer == InitServer /\ [][NextServer]_vars

\* the server under transfers between the sample accounts and a signal: calls are
\* accepted while the listener is open, and no call is bound to make progress (a
\* store or a lock may keep it waiting); the shutdown goroutines and the timer run
InitShutdown == Sample(LedgerIds, NCalls)

NextShutdown ==
    \/ \E p \in Procs, f \in LedgerIds, t \in LedgerIds :
          server.phase = "serving" /\ PerformTransfer(p, f, t, MaxInit)
    \/ \E p \in Procs, k \in {1, 2} : GetAccountWithLock(p, k)
    \/ \E p \in Procs : Debit(p)
    \/ \E p \in Procs : Credit(p)
    \/ \E p \in Procs : recordTransaction(p)
    \/ \E p \in Procs : Commit(p)
    \/ \E p \in Procs : Return(p)
    \/ Signal
    \/ GracefulStop
    \/ GracefulStopReturns
    \/ Timeout
    \/ SelectDone
    \/ SelectTimeout

SpecShutdown == InitShutdown /\ [][NextShutdown]_vars /\ WF_vars(ShutdownStep)

\* ------------------------------------------------------------ properties
RECURSIVE SumAmounts(_)
SumAmounts(S) ==
    IF S = {} THEN 0
    ELSE LET r == CHOOSE x \in S : TRUE IN r.amount + SumAmounts(S \ {r})

Credits(a) == SumAmounts({r \in transactions : r.to = a})
Debits(a) == SumAmounts({r \in transactions : r.from = a})

\* C1: no negative balances. Whatever transfers, store errors and account CRUD
\* happened, every committed row of accounts has balance >= 0.
C1_NoNegativeBalance ==
    \A a \in AccountIds : accounts[a].exists => accounts[a].balance >= 0

\* a committed transfer drained its source, and a later transfer from that source
\* was refused for insufficient funds
C1_Witness ==
    \E r \in transactions, p \in Procs :
        /\ accounts[r.from].exists /\ accounts[r.from].balance = 0
        /\ calls[p].pc = "ret" /\ calls[p].fromID = r.from
        /\ calls[p].err = "insufficient funds"

\* C2: conservation per transfer. The step that commits PerformTransfer(from, to,
\* amount) lowers the committed balance of from by exactly amount, raises that of to
\* by exactly amount and changes no other row, whatever else is running.
C2_Conservation ==
    [][\A p \in Procs :
          (calls[p].pc = "commit" /\ calls'[p].committed) =>
             LET f == calls[p].fromID
                 t == calls[p].toID
                 n == calls[p].amount
             IN  /\ accounts'[f].balance = accounts[f].balance - n
                 /\ accounts'[t].balance = accounts[t].balance + n
                 /\ accounts'[f].balance + accounts'[t].balance
                       = accounts[f].balance + accounts[t].balance
                 /\ \A a \in AccountIds \ {f, t} : accounts'[a] = accounts[a]]_vars

\* a transfer has committed while another invocation on the same two accounts is
\* inside its unit
C2_Witness ==
    \E p \in Procs, q \in Procs :
        /\ p # q
        /\ calls[p].pc = "ret" /\ calls[p].committed
        /\ calls[q].pc \in InUnit
        /\ {calls[q].fromID, calls[q].toID} = {calls[p].fromID, calls[p].toID}

\* C3: atomic visibility. In every state the committed balance of every account is
\* its opening balance plus the amounts of the committed records crediting it minus
\* those of the committed records debiting it: no debit, credit or record is ever
\* visible without the other two.
C3_AtomicVisibility ==
    \A a \in AccountIds :
        accounts[a].exists =>
            accounts[a].balance = opening[a] + Credits(a) - Debits(a)

\* a unit has debited, credited and logged but not committed, and the committed rows
\* still show neither change
C3_Witness ==
    \E p \in Procs :
        /\ calls[p].pc = "commit" /\ calls[p].logged
        /\ calls[p].writes[calls[p].fromID] # accounts[calls[p].fromID].balance
        /\ calls[p].writes[calls[p].toID] # accounts[calls[p].toID].balance

\* the invocation p waits: its pending store operation cannot proceed now
Waits(p) ==
    \/ /\ calls[p].pc \in {"lock1", "lock2"}
       /\ accounts[calls[p].want].exists
       /\ rowLock[calls[p].want] \notin {NoUnit, p}
    \/ /\ calls[p].pc = "record"
       /\ \E q \in Procs \ {p} :
             UnitOpen(q) /\ calls[q].logged /\ calls[q].txID = calls[p].txID

\* C4: deadlock freedom. With the store serving every operation that can proceed,
\* every invocation that opened its unit eventually returns, and in no state are all
\* unfinished invocations waiting.
C4_DeadlockFree ==
    /\ \A p \in 1..NRing : (calls[p].pc \in InUnit) ~> (calls[p].pc = "ret")
    /\ [](\A p \in Procs : calls[p].pc \in InUnit =>
             \E q \in Procs : calls[q].pc \in InUnit /\ ~Waits(q))

\* three invocations forming a ring a -> ab -> b -> a are inside their units at once,
\* one of them waiting for a row lock
C4_Witness ==
    \E p \in Procs, q \in Procs, r \in Procs :
        /\ calls[p].pc \in InUnit /\ calls[q].pc \in InUnit /\ calls[r].pc \in InUnit
        /\ calls[p].toID = calls[q].fromID
        /\ calls[q].toID = calls[r].fromID
        /\ calls[r].toID = calls[p].fromID
        /\ calls[p].fromID # calls[q].fromID /\ calls[q].fromID # calls[r].fromID
        /\ Waits(r)

\* C5: deterministic lock order. The first row lock an invocation requests is that
\* of the lexicographically smaller of its two ids and the second that of the larger,
\* so it never waits for a row lock holding the lock of a larger id.
C5_LockOrder ==
    \A p \in Procs :
        LET c == calls[p]
            other == IF c.want = c.fromID THEN c.toID ELSE c.fromID
        IN  c.pc \in {"lock1", "lock2"} =>
               /\ c.want \in {c.fromID, c.toID}
               /\ c.pc = "lock1" => StrLess(c.want, other)
               /\ c.pc = "lock2" => StrLess(other, c.want)
               /\ \A b \in AccountIds : rowLock[b] = p => StrLess(b, c.want)

\* an invocation whose source id is the larger one holds the lock of its destination
\* and requests that of its source
C5_Witness ==
    \E p \in Procs :
        /\ calls[p].pc = "lock2"
        /\ StrLess(calls[p].toID, calls[p].fromID)
        /\ rowLock[calls[p].toID] = p
        /\ calls[p].want = calls[p].fromID

\* the invocation c ended on an error of the store, not on a refusal of the engine
StoreFailed(c) ==
    LET texts == {StoreErrorText(pc) : pc \in InUnit} \cup {"failed to begin transaction"}
    IN  c.err \in texts \cup {Canceled(t) : t \in texts}

\* two valid invocations that met no store error debit the same source, which no
\* other invocation touches; each amount is within its opening balance, their sum is
\* not
Racing(p, q) ==
    /\ p # q
    /\ ~StoreFailed(calls[p]) /\ ~StoreFailed(calls[q])
    /\ \A r \in Procs \ {p, q} :
          calls[p].fromID \notin {calls[r].fromID, calls[r].toID}
    /\ Validate(calls[p].fromID, calls[p].toID, calls[p].amount) = ""
    /\ Validate(calls[q].fromID, calls[q].toID, calls[q].amount) = ""
    /\ calls[p].fromID = calls[q].fromID
    /\ calls[p].amount <= opening[calls[p].fromID]
    /\ calls[q].amount <= opening[calls[p].fromID]
    /\ calls[p].amount + calls[q].amount > opening[calls[p].fromID]

\* C6: overdraft race. Of two invocations racing for the funds of one source, once
\* both have returned exactly one has committed and the other was refused for
\* insufficient funds.
C6_OverdraftRace ==
    \A p \in Procs, q \in Procs :
        (Racing(p, q) /\ calls[p].pc = "ret" /\ calls[q].pc = "ret") =>
            \/ calls[p].committed /\ ~calls[q].committed
                  /\ calls[q].err = "insufficient funds"
            \/ calls[q].committed /\ ~calls[p].committed
                  /\ calls[p].err = "insufficient funds"

\* both racing invocations have returned, the second having waited for the row lock
\* of the source
C6_Witness ==
    \E p \in Procs, q \in Procs :
        /\ Racing(p, q) /\ calls[p].pc = "ret" /\ calls[q].pc = "ret"
        /\ calls[p].toID # calls[q].toID

\* C7: zero effect on failure. Every step of an invocation other than its successful
\* commit leaves the committed rows of accounts and transactions as they were, and an
\* invocation that returns an error has not committed and returns no id.
C7_ZeroEffectOnFailure ==
    /\ [][\A p \in Procs :
             (calls'[p] # calls[p] /\ ~calls'[p].committed) =>
                 (accounts' = accounts /\ transactions' = transactions)]_vars
    /\ [](\A p \in Procs :
             (calls[p].pc = "ret" /\ calls[p].err # "") =>
                 (~calls[p].committed /\ calls[p].txID = 0))

\* an invocation failed at its commit, after the debit, the credit and the insert
C7_Witness ==
    \E p \in Procs :
        calls[p].pc = "ret" /\ calls[p].err = "failed to commit transaction"

\* C8: atomicity under fault injection. While a unit holds its debit uncommitted the
\* committed rows show the balances read under the locks, and when the invocation then
\* fails, both committed balances are still those and transactions is unchanged.
C8_FaultAfterDebit ==
    /\ [](\A p \in Procs :
             calls[p].pc \in {"credit", "record", "commit"} =>
                /\ calls[p].fromID \in DOMAIN calls[p].writes
                /\ accounts[calls[p].fromID].balance = calls[p].fromAcc.balance
                /\ accounts[calls[p].toID].balance = calls[p].toAcc.balance)
    /\ [][\A p \in Procs :
             (/\ calls[p].pc \in {"credit", "record", "commit"}
              /\ calls'[p].pc = "ret" /\ calls'[p].err # "") =>
                /\ accounts'[calls[p].fromID].balance = calls[p].fromAcc.balance
                /\ accounts'[calls[p].toID].balance = calls[p].toAcc.balance
                /\ transactions' = transactions]_vars

\* the credit of an invocation failed after its debit was applied inside the unit
C8_Witness ==
    \E p \in Procs :
        /\ calls[p].pc = "ret"
        /\ calls[p].err = "failed to credit account: failed to update balance"

\* an invalid request of PerformTransfer
Invalid(f, t, amt) == f = EmptyId \/ t = EmptyId \/ f = t \/ amt <= 0

\* C9: invalid requests are refused before any store interaction. An invocation of
\* PerformTransfer with an empty id, equal ids or amount <= 0 has returned an error
\* without a unit, a row lock, an uncommitted write or a commit or rollback.
C9_InvalidRefusedEarly ==
    \A p \in Procs :
        LET c == calls[p]
        IN  (c.invoked /\ Invalid(c.fromID, c.toID, c.amount)) =>
               /\ c.pc = "ret" /\ c.err # ""
               /\ ~c.began /\ ~c.committed /\ c.txID = 0
               /\ c.writes = NoWrites /\ ~c.logged
               /\ c.commits = 0 /\ c.rollbacks = 0
               /\ \A a \in AccountIds : rowLock[a] # p

\* PerformTransfer refused a transfer of a positive amount to the same account, which
\* the handler's validation lets through
C9_Witness ==
    \E p \in Procs :
        /\ calls[p].pc = "ret" /\ calls[p].invoked
        /\ calls[p].fromID = calls[p].toID /\ calls[p].fromID # EmptyId
        /\ calls[p].amount > 0
        /\ calls[p].err = "cannot transfer to the same account"

\* C10: currency validation covers the request currency. A transfer entered through
\* Handler.Transfer commits only if the request currency is the currency of its
\* record, which is that of both accounts.
C10_RequestCurrencyChecked ==
    \A p \in Procs :
        (calls[p].pc = "ret" /\ calls[p].reqCurrency # "" /\ calls[p].committed) =>
            \E r \in transactions :
                r.id = calls[p].txID /\ r.currency = calls[p].reqCurrency

\* C11: insufficient funds is decided on the locked balance. When the second lock of a
\* valid transfer between two existing accounts of one currency is served, the
\* transfer is refused with insufficient funds exactly when the source balance, read
\* under the row lock, is below the amount, and then no committed row changes;
\* otherwise it goes on to the debit with that balance. A transfer of the whole
\* balance commits and leaves the source at 0.
C11_FundsOnLockedBalance ==
    /\ [][\A p \in Procs :
             LET c == calls[p]
                 f == c.fromID
                 t == c.toID
             IN  (/\ c.pc = "lock2" /\ calls'[p] # c /\ ~StoreFailed(calls'[p])
                  /\ accounts[f].exists /\ accounts[t].exists
                  /\ accounts[f].currency = accounts[t].currency) =>
                    /\ (calls'[p].err = "insufficient funds")
                          <=> (accounts[f].balance < c.amount)
                    /\ (accounts[f].balance < c.amount) =>
                          /\ calls'[p].pc = "ret" /\ ~calls'[p].committed
                          /\ accounts' = accounts /\ transactions' = transactions
                    /\ (accounts[f].balance >= c.amount) =>
                          /\ calls'[p].pc = "debit"
                          /\ calls'[p].fromAcc.balance = accounts[f].balance]_vars
    /\ [][\A p \in Procs :
             (/\ calls[p].pc = "commit" /\ calls'[p].committed
              /\ calls[p].amount = accounts[calls[p].fromID].balance) =>
                accounts'[calls[p].fromID].balance = 0]_vars

\* a transfer of the whole opening balance of its source has committed, and a later
\* transfer between two existing accounts was refused for insufficient funds
C11_Witness ==
    \E r \in transactions, p \in Procs :
        /\ r.amount = opening[r.from] /\ accounts[r.from].balance = 0
        /\ calls[p].pc = "ret" /\ calls[p].err = "insufficient funds"
        /\ accounts[calls[p].fromID].exists /\ accounts[calls[p].toID].exists
        /\ accounts[calls[p].fromID].balance < calls[p].amount

\* C12: account not found. When PerformTransfer tries to lock a row that does not
\* exist, it returns a not-found error naming that id with its unit rolled back: no
\* row lock is left to it, nothing is committed, and accounts and transactions are
\* unchanged.
C12_AccountNotFound ==
    [][\A p \in Procs :
          LET c == calls[p] IN
          (/\ c.pc \in {"lock1", "lock2"} /\ calls'[p] # c
           /\ ~accounts[c.want].exists /\ ~StoreFailed(calls'[p])) =>
             /\ calls'[p].pc = "ret"
             /\ calls'[p].err = "account not found" /\ calls'[p].missing = c.want
             /\ ~calls'[p].committed /\ calls'[p].txID = 0
             /\ calls'[p].rollbacks = 1 /\ calls'[p].commits = 0
             /\ \A a \in AccountIds : rowLock'[a] # p
             /\ accounts' = accounts /\ transactions' = transactions]_vars

\* the second row an invocation asked for was missing: it returned the error naming
\* it, and the lock it had taken on the existing first row is free again
C12_Witness ==
    \E p \in Procs :
        LET c == calls[p]
            first == LockOrder(c.fromID, c.toID)[1]
        IN  /\ c.pc = "ret" /\ c.err = "account not found"
            /\ c.missing = LockOrder(c.fromID, c.toID)[2]
            /\ ~accounts[c.missing].exists
            /\ accounts[first].exists /\ rowLock[first] = NoUnit

\* the invocation p commits in this step
Commits(p) == calls[p].pc = "commit" /\ calls'[p].committed

\* C13: one audit record per committed transfer. The step in which an invocation
\* commits adds exactly one record to the committed log, new to it, carrying the id
\* returned to the caller and the from id, to id and amount of the call; no other
\* step changes the log, so no record exists for a call that returned an error.
C13_OneRecordPerCommit ==
    [][/\ \A p \in Procs :
             Commits(p) =>
                /\ calls'[p].txID # 0
                /\ \A r \in transactions : r.id # calls'[p].txID
                /\ \E r \in transactions' :
                      /\ transactions' = transactions \cup {r}
                      /\ r.id = calls'[p].txID
                      /\ r.from = calls[p].fromID /\ r.to = calls[p].toID
                      /\ r.amount = calls[p].amount
                /\ Cardinality(transactions') = Cardinality(transactions) + 1
       /\ (\A p \in Procs : ~Commits(p)) => transactions' = transactions]_vars

\* two transfers have committed, the second just now: the log holds two records, one
\* of them with the id and the arguments of the call that returned
C13_Witness ==
    \E p \in Procs, r \in transactions :
        /\ calls[p].pc = "ret" /\ calls[p].committed
        /\ r.id = calls[p].txID /\ r.from = calls[p].fromID /\ r.to = calls[p].toID
        /\ r.amount = calls[p].amount
        /\ Cardinality(transactions) = 2

\* C14: immutable audit log. No step of the system (a transfer, CreateAccount,
\* UpdateAccount, DeleteAccount, GetBalance) removes a committed record or changes a
\* field of one: every record of the log before the step is in the log after it.
C14_ImmutableLog ==
    [][transactions \subseteq transactions']_vars

\* after a transfer committed, UpdateAccount changed the currency of its source and
\* GetBalance read that account: the record still carries the currency of the transfer
C14_Witness ==
    \E r \in transactions :
        /\ accounts[r.from].exists /\ accounts[r.from].currency # r.currency
        /\ reply.found /\ reply.id = r.from /\ reply.currency # r.currency

\* C15: transaction id uniqueness. The committed log never holds two records with one
\* id. A unit whose insert meets an id already in the log fails there: the invocation
\* returns an error uncommitted, its debit and credit are discarded with its locks,
\* and the committed accounts and the log, the first transfer's record included, stay
\* as they were.
C15_TxIdUnique ==
    /\ [](\A r1 \in transactions, r2 \in transactions : r1.id = r2.id => r1 = r2)
    /\ [][\A p \in Procs :
             LET c == calls[p] IN
             (/\ c.pc = "record" /\ calls'[p] # c
              /\ \E r \in transactions : r.id = c.txID) =>
                /\ calls'[p].pc = "ret" /\ calls'[p].err # ""
                /\ ~calls'[p].committed /\ calls'[p].writes = NoWrites
                /\ \A a \in AccountIds : rowLock'[a] # p
                /\ accounts' = accounts /\ transactions' = transactions]_vars

\* uuid.New() gave a second transfer the id of a committed one: the second failed at
\* its insert after its debit and credit, and the balances are those the first left
C15_Witness ==
    \E p \in Procs, q \in Procs, r \in transactions :
        /\ calls[p].pc = "ret" /\ calls[p].committed /\ r.id = calls[p].txID
        /\ calls[q].pc = "ret" /\ calls[q].err = "failed to record transaction"
        /\ transactions = {r}
        /\ accounts[r.from].balance = opening[r.from] - r.amount
        /\ accounts[r.to].balance = opening[r.to] + r.amount

\* C16: post-commit notification. For every committed transfer one notification per
\* affected account has been offered to the notification queue, and none for any
\* other transfer: the number of Enqueue calls is twice the number of committed
\* records.
C16_NotifiedAfterCommit ==
    pool.offered = 2 * Cardinality(transactions)

\* C17: Enqueue never blocks and drops on full. Whatever the buffer size, the number
\* of workers and what they are doing, Enqueue can run; the queue never holds more
\* than bufferSize notifications; an Enqueue that finds the queue full and no worker
\* parked in its receive drops the notification and leaves queue and workers as they
\* were, and any other Enqueue drops nothing.
C17_EnqueueNeverBlocks ==
    /\ [](\A n \in Notifications : pool.offered < MaxOffered => ENABLED Enqueue(n))
    /\ [](Len(pool.JobQueue) <= pool.size)
    /\ [][pool'.offered # pool.offered =>
             IF Len(pool.JobQueue) = pool.size /\ Parked = {}
             THEN /\ pool'.JobQueue = pool.JobQueue /\ pool'.workers = pool.workers
                  /\ pool'.dropped = pool.dropped + 1
             ELSE /\ pool'.dropped = pool.dropped
                  /\ \/ Len(pool'.JobQueue) = Len(pool.JobQueue) + 1
                     \/ \E w \in Parked : pool'.workers[w].at = "log"]_vars

\* a notification was dropped on a full buffered queue while every worker was busy
\* logging, and the queue is still full
C17_Witness ==
    /\ pool.dropped > 0
    /\ pool.size > 0 /\ Len(pool.JobQueue) = pool.size
    /\ Workers # {} /\ \A w \in Workers : pool.workers[w].at = "log"

\* the error texts PerformTransfer returns on a cancelled or expired context
CanceledTexts ==
    {Canceled(StoreErrorText(pc)) : pc \in InUnit}
        \cup {Canceled("failed to begin transaction")}

\* C18: cancellation has zero effect. A cancellation can end an invocation at every
\* point of its unit, also while it waits for a row lock; the invocation then returns
\* an error with its unit rolled back: it has not committed, holds no row lock and no
\* uncommitted write, and accounts and transactions are unchanged.
C18_CancelZeroEffect ==
    /\ [](\A p \in Procs : (calls[p].pc \in InUnit) => ENABLED Cancel(p))
    /\ [][\A p \in Procs :
             (/\ calls'[p] # calls[p] /\ calls'[p].pc = "ret"
              /\ calls'[p].err \in CanceledTexts) =>
                /\ ~calls'[p].committed /\ calls'[p].txID = 0
                /\ calls'[p].commits = 0 \/ calls[p].pc = "commit"
                /\ calls'[p].began => calls'[p].rollbacks = 1
                /\ calls'[p].writes = NoWrites /\ ~calls'[p].logged
                /\ \A a \in AccountIds : rowLock'[a] # p
                /\ accounts' = accounts /\ transactions' = transactions]_vars

\* an invocation was cancelled while it waited for a row lock: it returned the
\* cancellation while another invocation holds the locks of both its accounts
C18_Witness ==
    \E p \in Procs, q \in Procs :
        /\ p # q
        /\ calls[p].pc = "ret" /\ calls[p].err = Canceled("failed to lock account")
        /\ rowLock[calls[p].fromID] = q /\ rowLock[calls[p].toID] = q

\* C19: cancellation is reported as its own outcome. A transfer entered through
\* Handler.Transfer that ended on a cancelled or expired context is answered with the
\* status Canceled, not with the status of a store or internal failure.
C19_CancelledOutcome ==
    \A p \in Procs :
        (/\ calls[p].pc = "ret" /\ calls[p].reqCurrency # ""
         /\ calls[p].err \in CanceledTexts) =>
            calls[p].status = "Canceled"

\* C20: GetBalance is lock-free. GetBalance can run in every state, whoever holds the
\* row lock of the account; it changes no row, no row lock and no invocation; and
\* unless its SELECT fails it returns the committed balance and currency of the
\* account, or not found when there is no such row.
C20_GetBalanceLockFree ==
    /\ [](\A id \in Ids : ENABLED GetBalance(id))
    /\ [][reply' # reply =>
             /\ UNCHANGED <<accounts, transactions, rowLock, calls, opening, pool, rpc, exec, server>>
             /\ reply'.err \notin {"failed to get account", "account ID cannot be empty"} =>
                   LET row == accounts[reply'.id] IN
                   IF row.exists
                   THEN /\ reply'.found /\ reply'.err = ""
                        /\ reply'.balance = row.balance
                        /\ reply'.currency = row.currency
                   ELSE ~reply'.found /\ reply'.err = "account not found"]_vars

\* GetBalance read the committed balance of an account while a unit held its row lock
\* with an uncommitted debit on it; the unit still holds the lock
C20_Witness ==
    /\ reply.found /\ reply.held # NoUnit
    /\ rowLock[reply.id] = reply.held
    /\ reply.id \in DOMAIN calls[reply.held].writes
    /\ calls[reply.held].writes[reply.id] # reply.balance
    /\ reply.balance = accounts[reply.id].balance

\* C21: no lock outlives its call. An invocation that is not inside its unit (not yet
\* called, or returned on any path) holds no row lock, and one that returned after
\* opening a unit has ended it by commit or rollback; an invocation waiting for a row
\* lock is eventually no longer waiting.
C21_NoLockOutlivesCall ==
    /\ [](\A p \in Procs :
             calls[p].pc \notin InUnit =>
                /\ \A a \in AccountIds : rowLock[a] # p
                /\ calls[p].writes = NoWrites /\ ~calls[p].logged
                /\ calls[p].began => (calls[p].committed \/ calls[p].rollbacks > 0))
    /\ \A p \in 1..NCalls : Waits(p) ~> ~Waits(p)

\* an invocation waits for a row lock held by an invocation that is past its debit
C21_Witness ==
    \E p \in Procs, q \in Procs :
        /\ calls[p].pc \in {"lock1", "lock2"} /\ Waits(p)
        /\ rowLock[calls[p].want] = q
        /\ calls[q].pc \in {"credit", "record", "commit"}

\* C22: exactly one terminal operation per unit. On the unit of an invocation that
\* has returned, exactly one of Commit and Rollback was invoked, once.
C22_OneTerminalOperation ==
    \A p \in Procs :
        (calls[p].pc = "ret" /\ calls[p].began) =>
            calls[p].commits + calls[p].rollbacks = 1

\* the error texts of PerformTransfer for an UpdateBalance that affected zero rows
ZeroRowsTexts ==
    {"failed to debit account: account not found",
     "failed to credit account: account not found"}

\* C23: zero-rows-affected is a distinct internal error. A transfer entered through
\* Handler.Transfer whose debit or credit affected zero rows is answered with the
\* status Internal, not with that of an account not found.
C23_ZeroRowsInternal ==
    \A p \in Procs :
        (/\ calls[p].pc = "ret" /\ calls[p].reqCurrency # ""
         /\ calls[p].err \in ZeroRowsTexts) =>
            calls[p].status = "Internal"

\* the InvalidRequest refusals: every text the validation of PerformTransfer or of
\* Handler.Transfer refuses a request with
InvalidRequestTexts ==
    ({Validate(f, t, amt) : f \in Ids, t \in Ids, amt \in Amounts}
        \cup {HandlerValidate(f, t, amt, cur) :
                  f \in Ids, t \in Ids, amt \in Amounts, cur \in Currencies \cup {""}})
    \ {""}

\* C24: failure classes map to distinct transport statuses. A transfer entered through
\* Handler.Transfer that failed is answered InvalidArgument for an invalid request
\* (empty id, same account, amount not positive) and for a currency mismatch, NotFound
\* for an account not found, FailedPrecondition for insufficient funds, and Internal
\* for every other failure.
C24_DistinctStatuses ==
    \A p \in Procs :
        (calls[p].pc = "ret" /\ calls[p].reqCurrency # "" /\ calls[p].err # "") =>
            calls[p].status =
                CASE calls[p].err \in InvalidRequestTexts -> "InvalidArgument"
                  [] calls[p].err = "currency mismatch" -> "InvalidArgument"
                  [] calls[p].err = "account not found" -> "NotFound"
                  [] calls[p].err = "insufficient funds" -> "FailedPrecondition"
                  [] OTHER -> "Internal"

\* C25: commit failure is a failure. When tx.Commit() of an invocation returns an
\* error, the invocation returns an error and no transaction id, no committed row of
\* accounts changes and transactions holds no record of the invocation; and an
\* invocation that returned a transaction id committed, without an error, and its
\* record is in transactions.
C25_CommitFailure ==
    /\ [][\A p \in Procs :
            (calls[p].pc = "commit" /\ calls'[p].pc = "ret" /\ ~calls'[p].committed) =>
                /\ calls'[p].err # "" /\ calls'[p].txID = 0
                /\ calls'[p].commits = 1
                /\ accounts' = accounts /\ transactions' = transactions
                /\ \A r \in transactions' : r.id # calls[p].txID]_vars
    /\ [](\A p \in Procs :
             (calls[p].pc = "ret" /\ calls[p].txID # 0) =>
                /\ calls[p].committed /\ calls[p].err = "" /\ calls[p].commits = 1
                /\ \E r \in transactions :
                      /\ r.id = calls[p].txID
                      /\ r.from = calls[p].fromID /\ r.to = calls[p].toID
                      /\ r.amount = calls[p].amount)

\* tx.Commit() of a transfer of a positive amount failed: the invocation returned the
\* error and no id, the balances are the opening ones and the log is empty
C25_Witness ==
    \E p \in Procs :
        /\ calls[p].pc = "ret" /\ calls[p].commits = 1 /\ ~calls[p].committed
        /\ calls[p].err = "failed to commit transaction" /\ calls[p].txID = 0
        /\ calls[p].amount > 0
        /\ accounts[calls[p].fromID].balance = opening[calls[p].fromID]
        /\ transactions = {}

\* the account id is named by a committed Transaction record
Referenced(id) == \E r \in transactions : r.from = id \/ r.to = id

\* C26: referential integrity of the log. In every reachable state the from id and the
\* to id of every committed Transaction record name rows of accounts that exist, and
\* DeleteAccount of an account that a record names cannot delete it.
C26_ReferentialIntegrity ==
    /\ [](\A r \in transactions : accounts[r.from].exists /\ accounts[r.to].exists)
    /\ [](\A id \in AccountIds : Referenced(id) => ~ENABLED DeleteAccount(id))

\* a committed record names an account whose row lock is free, so that a DELETE of it
\* is not kept waiting, and the DELETE is refused
C26_Witness ==
    \E r \in transactions :
        /\ accounts[r.from].exists /\ rowLock[r.from] = NoUnit
        /\ ~ENABLED DeleteAccount(r.from)

\* the invocations p and q were made with identical arguments and both committed
Repeated(p, q) ==
    /\ p # q
    /\ calls[p].pc = "ret" /\ calls[p].committed
    /\ calls[q].pc = "ret" /\ calls[q].committed
    /\ calls[p].fromID = calls[q].fromID /\ calls[p].toID = calls[q].toID
    /\ calls[p].amount = calls[q].amount

\* C27: retries are not idempotent. Two invocations with identical arguments that both
\* committed returned distinct transaction ids, each has its own record in the log,
\* and the source was debited and the destination credited twice; the engine repeats
\* nothing on its own: every invocation commits at most once, the log holds one
\* record per committed invocation, and every balance is its opening value plus the
\* recorded credits minus the recorded debits.
C27_RetriesNotIdempotent ==
    /\ \A p \in Procs, q \in Procs :
          Repeated(p, q) =>
             /\ calls[p].txID # calls[q].txID
             /\ \A x \in {p, q} :
                   \E r \in transactions :
                      /\ r.id = calls[x].txID /\ r.from = calls[x].fromID
                      /\ r.to = calls[x].toID /\ r.amount = calls[x].amount
             /\ Debits(calls[p].fromID) >= calls[p].amount + calls[p].amount
             /\ Credits(calls[p].toID) >= calls[p].amount + calls[p].amount
    /\ \A p \in Procs : calls[p].commits <= 1
    /\ Cardinality(transactions) = Cardinality({p \in Procs : calls[p].committed})
    /\ \A a \in AccountIds : accounts[a].balance = opening[a] + Credits(a) - Debits(a)

\* the same transfer of a positive amount was invoked twice and committed twice
C27_Witness ==
    \E p \in Procs, q \in Procs :
        /\ Repeated(p, q) /\ calls[p].amount > 0
        /\ Cardinality(transactions) = 2
        /\ accounts[calls[p].fromID].balance < opening[calls[p].fromID] - calls[p].amount

\* the request carries metadata with an authorization value that, with or without
\* the Bearer prefix, is a well-formed unexpired token signed with an HMAC method
\* under the configured secret
Authenticated(req) ==
    /\ req.md
    /\ \E i \in DOMAIN req.authorization :
          LET v == req.authorization[i] IN
          /\ v.prefix \in {"", "Bearer "}
          /\ v.token.wellFormed /\ v.token.alg \in HMAC
          /\ v.token.key = JWTSecret /\ ~v.token.expired

\* a handler is entered in this step: an invocation of Transfer starts, a row of
\* accounts is inserted, updated or deleted by the CRUD handlers, or GetBalance
\* answers
HandlerInvoked ==
    \/ \E p \in Procs : calls[p].pc = "idle" /\ calls'[p].pc # "idle"
    \/ \E a \in AccountIds :
          \/ accounts'[a].exists # accounts[a].exists
          \/ accounts'[a].currency # accounts[a].currency
    \/ reply' # reply

\* C28: no unauthenticated call reaches a handler. AuthInterceptor admits a request
\* only when it carries metadata with an authorization value that parses as a valid
\* token signed with an HMAC method under the configured secret; every other request
\* is answered Unauthenticated and not admitted, the decision itself changes no
\* ledger state, and a handler is entered only for an admitted request.
C28_NoUnauthenticatedCall ==
    /\ [](rpc.admitted => (Authenticated(rpc.req) /\ rpc.code = ""))
    /\ [][rpc' # rpc =>
             /\ UNCHANGED <<accounts, transactions, rowLock, calls, opening, pool, reply, exec, server>>
             /\ ~Authenticated(rpc'.req) =>
                   (rpc'.code = "Unauthenticated" /\ ~rpc'.admitted)]_vars
    /\ [][HandlerInvoked => (rpc.admitted /\ rpc' = rpc)]_vars

\* after a handler has run for an admitted request, a request with a well-formed HMAC
\* token signed under another key is answered Unauthenticated
C28_Witness ==
    /\ \E a \in AccountIds : accounts[a].exists
    /\ rpc.code = "Unauthenticated" /\ ~rpc.admitted
    /\ rpc.req.md /\ Len(rpc.req.authorization) = 1
    /\ LET v == rpc.req.authorization[1] IN
          /\ v.prefix = "Bearer " /\ v.token.wellFormed /\ v.token.alg \in HMAC
          /\ v.token.key # JWTSecret /\ ~v.token.expired

\* the sum of b over the ids in S
RECURSIVE Total(_, _)
Total(b, S) ==
    IF S = {} THEN 0
    ELSE LET a == CHOOSE x \in S : TRUE IN b[a] + Total(b, S \ {a})

\* C29: total money is invariant. Over every interleaving of concurrent PerformTransfer
\* invocations on a fixed set of accounts, whether they commit, fail or are cancelled,
\* the sum of all committed balances is the sum of the opening balances.
C29_TotalMoney ==
    Total([a \in AccountIds |-> accounts[a].balance], AccountIds)
        = Total(opening, AccountIds)

\* one transfer of a positive amount has committed, another was cancelled after its
\* debit, and a committed balance differs from its opening value
C29_Witness ==
    \E p \in Procs, q \in Procs :
        /\ calls[p].pc = "ret" /\ calls[p].committed /\ calls[p].amount > 0
        /\ calls[q].pc = "ret"
        /\ calls[q].err = Canceled("failed to credit account: failed to update balance")
        /\ accounts[calls[p].fromID].balance # opening[calls[p].fromID]

\* the invocation p has locked both accounts and its unit is open
LockedBoth(p) == calls[p].pc \in {"debit", "credit", "record", "commit"}

\* C30: zero-rows-affected is unreachable under the lock discipline. Whatever other
\* transfers, DeleteAccount and UpdateAccount do, from the moment an invocation has
\* locked both accounts until its commit or rollback both rows exist, it holds both
\* row locks and DeleteAccount can delete neither row; and no invocation ever returns
\* the error of an UpdateBalance that affected zero rows.
C30_ZeroRowsUnreachable ==
    /\ [](\A p \in Procs :
             LockedBoth(p) =>
                \A id \in {calls[p].fromID, calls[p].toID} :
                   /\ accounts[id].exists /\ rowLock[id] = p
                   /\ ~ENABLED DeleteAccount(id))
    /\ [](\A p \in Procs : calls[p].err \notin ZeroRowsTexts)

\* an invocation holds its debit uncommitted on accounts that no record names, so that
\* only its row locks keep a DeleteAccount of the source waiting
C30_Witness ==
    \E p \in Procs :
        /\ calls[p].pc = "credit" /\ calls[p].amount > 0
        /\ transactions = {}
        /\ rowLock[calls[p].fromID] = p /\ rowLock[calls[p].toID] = p
        /\ ~ENABLED DeleteAccount(calls[p].fromID)

\* the row the unit of p read under its lock on id
LockedRead(p, id) == IF id = calls[p].fromID THEN calls[p].fromAcc ELSE calls[p].toAcc

\* C31: balances change only under a held lock. A unit writes a balance only on a row
\* whose lock it already holds after its own GetAccountWithLock; as long as a unit
\* holds the lock of a row, the committed row is the one it read under the lock, so no
\* other unit changed its balance or currency; and a step that changes the currency of
\* a row, which is UpdateAccount, leaves its balance as it was.
C31_ChangeUnderLock ==
    /\ [][\A p \in Procs, id \in AccountIds :
             (id \in DOMAIN calls'[p].writes /\
                 (id \notin DOMAIN calls[p].writes \/ calls'[p].writes[id] # calls[p].writes[id]))
             => (/\ rowLock[id] = p /\ id \in {calls[p].fromID, calls[p].toID}
                 /\ LockedRead(p, id).exists)]_vars
    /\ [](\A p \in Procs, id \in AccountIds :
             (calls[p].pc \in InUnit /\ rowLock[id] = p) => accounts[id] = LockedRead(p, id))
    /\ [][\A id \in AccountIds :
             (accounts[id].exists /\ accounts'[id].exists
                 /\ accounts'[id].currency # accounts[id].currency)
             => (accounts'[id].balance = accounts[id].balance /\ rowLock[id] = NoUnit)]_vars

\* a unit holds its debit uncommitted on a row whose currency UpdateAccount has changed
\* before the unit locked it: the committed row is still the one the unit read
C31_Witness ==
    \E p \in Procs :
        /\ calls[p].pc = "credit" /\ calls[p].amount > 0
        /\ calls[p].fromAcc.currency = "EUR"
        /\ accounts[calls[p].fromID] = calls[p].fromAcc
        /\ calls[p].writes[calls[p].fromID] = accounts[calls[p].fromID].balance - calls[p].amount

\* C32: the currency of a committed transfer is consistent. In the step that commits a
\* transfer, the committed rows of its source and destination have one currency, and
\* the record the step adds to the log carries that currency, also when UpdateAccount
\* changes currencies while the transfer runs.
C32_CommittedCurrency ==
    [][\A p \in Procs :
          Commits(p) =>
             LET f == calls[p].fromID
                 t == calls[p].toID
             IN  /\ accounts[f].exists /\ accounts[t].exists
                 /\ accounts[f].currency = accounts[t].currency
                 /\ accounts'[f].currency = accounts[f].currency
                 /\ accounts'[t].currency = accounts[t].currency
                 /\ \A r \in transactions' \ transactions :
                       r.currency = accounts[f].currency]_vars

\* a transfer between accounts that UpdateAccount had turned to EUR has committed with
\* an EUR record, and the source has been changed to another currency since
C32_Witness ==
    \E r \in transactions :
        /\ r.currency = "EUR" /\ r.amount > 0
        /\ accounts[r.from].currency = "USD" /\ accounts[r.to].currency = "EUR"

\* the first refusal in the order of the claim for a transfer of amt from f to t on
\* the committed rows: its class and the id it names; class "" when none holds
Precedence(f, t, amt) ==
    LET lo == IF StrLess(f, t) THEN f ELSE t
        hi == IF StrLess(f, t) THEN t ELSE f
    IN  IF Invalid(f, t, amt) THEN [class |-> "invalid request", id |-> EmptyId]
        ELSE IF ~accounts[lo].exists THEN [class |-> "account not found", id |-> lo]
        ELSE IF ~accounts[hi].exists THEN [class |-> "account not found", id |-> hi]
        ELSE IF accounts[f].currency # accounts[t].currency
             THEN [class |-> "currency mismatch", id |-> EmptyId]
        ELSE IF accounts[f].balance < amt
             THEN [class |-> "insufficient funds", id |-> EmptyId]
        ELSE [class |-> "", id |-> EmptyId]

\* the class of the failure the invocation c reported, and the id it names
Reported(c) ==
    [class |-> IF c.err \in InvalidRequestTexts THEN "invalid request" ELSE c.err,
     id |-> c.missing]

\* C33: failure precedence is deterministic. An invocation that returned a refusal
\* reported the first condition that holds in the order invalid request, smaller id
\* not found, larger id not found, currency mismatch, insufficient funds, whatever the
\* direction of the transfer; and an invocation reaches its commit only when none of
\* them holds.
C33_FailurePrecedence ==
    /\ [][\A p \in Procs :
             LET c == calls'[p] IN
             (calls[p].pc # "ret" /\ c.pc = "ret" /\ c.err # "" /\ ~StoreFailed(c)) =>
                Reported(c) = Precedence(c.fromID, c.toID, c.amount)]_vars
    /\ [](\A p \in Procs :
             calls[p].pc \in {"debit", "credit", "record", "commit"} =>
                Precedence(calls[p].fromID, calls[p].toID, calls[p].amount).class = "")

\* both accounts are missing and the transfer goes from the larger id to the smaller:
\* the smaller id, the destination, is the one named
C33_Witness ==
    \E p \in Procs :
        /\ calls[p].pc = "ret" /\ calls[p].err = "account not found"
        /\ StrLess(calls[p].toID, calls[p].fromID)
        /\ ~accounts[calls[p].fromID].exists /\ ~accounts[calls[p].toID].exists
        /\ calls[p].missing = calls[p].toID

\* the notifications Enqueue accepted; those a worker has received; those a worker
\* holds; the multiset of notifications in the channel or held by a worker
Accepted == pool.offered - pool.dropped
Received == Accepted - Len(pool.JobQueue)
Holding == {w \in Workers : pool.workers[w].at = "log"}
InFlight(q) ==
    LET jobs == [i \in 1..Len(q.JobQueue) |-> q.JobQueue[i]]
        held == {w \in DOMAIN q.workers : q.workers[w].at = "log"}
    IN  [n \in Notifications |->
            Cardinality({i \in DOMAIN jobs : jobs[i] = n})
                + Cardinality({w \in held : q.workers[w].job = n})]

\* C34: accepted notifications are delivered exactly once. An accepted Enqueue adds
\* its notification once to what is queued or held by a worker; a receive moves the
\* head of the queue to one worker and to no other, and nothing else enters or is
\* duplicated; only a worker that logged its notification removes one. With a worker
\* started and every worker scheduled, the k-th accepted notification is eventually
\* received; without workers every accepted notification stays queued.
C34_DeliveredOnce ==
    /\ [][pool' # pool =>
             \/ /\ pool'.offered = pool.offered + 1
                /\ \E n \in Notifications :
                      InFlight(pool') =
                         IF pool'.dropped = pool.dropped
                         THEN [InFlight(pool) EXCEPT ![n] = @ + 1]
                         ELSE InFlight(pool)
             \/ /\ pool'.offered = pool.offered /\ pool'.dropped = pool.dropped
                /\ \E w \in Workers :
                      /\ \A v \in Workers \ {w} : pool'.workers[v] = pool.workers[v]
                      /\ \/ /\ pool.workers[w].at = "idle" /\ pool'.workers[w].at = "recv"
                            /\ pool.JobQueue = << >> /\ pool'.JobQueue = << >>
                         \/ /\ pool.workers[w].at = "idle" /\ pool'.workers[w].at = "log"
                            /\ pool'.workers[w].job = Head(pool.JobQueue)
                            /\ pool'.JobQueue = Tail(pool.JobQueue)
                            /\ InFlight(pool') = InFlight(pool)
                         \/ /\ pool.workers[w].at = "log" /\ pool'.workers[w].at = "idle"
                            /\ pool'.JobQueue = pool.JobQueue
                            /\ InFlight(pool') =
                                  [InFlight(pool) EXCEPT ![pool.workers[w].job] = @ - 1]]_vars
    /\ [](Workers = {} => Len(pool.JobQueue) = Accepted)
    /\ \A k \in 1..MaxOffered : (Workers # {} /\ Accepted >= k) ~> (Received >= k)

\* two workers each hold a notification they received while a third one waits in the
\* queue
C34_Witness ==
    /\ Cardinality(Holding) = 2 /\ Len(pool.JobQueue) > 0
    /\ Accepted >= 3 /\ Received = 2

\* C35: ExecTx terminates the unit exactly once. When ExecTx has returned: if the unit
\* could not be opened, fn was not invoked and the error of BeginTxx is returned;
\* else fn was invoked once, and if it returned nil Commit was invoked once, Rollback
\* never, and the result of Commit is returned, and if it returned an error Rollback
\* was invoked once, Commit never, and that error is returned unchanged. The rows fn
\* wrote become the committed ones exactly when fn returned nil and Commit succeeded.
C35_ExecTxTerminatesOnce ==
    /\ [](exec.pc = "ret" =>
             IF ~exec.began
             THEN /\ exec.fnCalls = 0 /\ exec.commits = 0 /\ exec.rollbacks = 0
                  /\ exec.err # ""
             ELSE /\ exec.fnCalls = 1
                  /\ IF exec.fnErr = ""
                     THEN /\ exec.commits = 1 /\ exec.rollbacks = 0
                          /\ exec.err = exec.commitErr
                     ELSE /\ exec.rollbacks = 1 /\ exec.commits = 0
                          /\ exec.err = exec.fnErr)
    /\ [][(exec.pc = "fn" /\ exec'.pc = "ret") =>
             accounts' = IF exec'.fnErr = "" /\ exec'.commitErr = ""
                         THEN Installed(exec.writes) ELSE accounts]_vars

\* fn wrote a balance and returned nil, and ExecTx returned nil with the row
\* committed: one Commit, no Rollback
C35_Witness ==
    /\ exec.pc = "ret" /\ exec.began /\ exec.err = "" /\ exec.commits = 1
    /\ exec.rollbacks = 0
    /\ \E a \in AccountIds : accounts[a].balance # opening[a]

\* C36: the ledger.Server.Transfer variant locks accounts in sorted id order. No two
\* invocations of Server.Transfer ever each hold one row lock and wait for the row
\* lock the other holds.
C36_ServerLockOrder ==
    \A p \in Procs : ~CrossWait(p)

\* C37: the ledger.Server.Transfer variant keeps balances non-negative for every
\* input. A commit of Server.Transfer that finds every committed balance >= 0 leaves
\* every committed balance >= 0, whatever the amount and the ids.
C37_ServerNonNegative ==
    [][\A p \in Procs :
          (/\ calls[p].pc = "scommit" /\ calls'[p].committed
           /\ \A a \in AccountIds : accounts[a].balance >= 0) =>
              \A a \in AccountIds : accounts'[a].balance >= 0]_vars

====
